---- MODULE Spec2Model ----
(***************************************************************************)
(* A model of the request handling of the fast-api-tutorial example        *)
(* scripts: the declared parameters of the path operations, the binding    *)
(* and validation of a request against them, the exception handlers, the   *)
(* dependency (resolver) graphs, the in-memory items store, the response   *)
(* shaping and the route lookup.                                           *)
(*                                                                         *)
(* The specifications share the variables:                                 *)
(*   SpecBind   one request at a time through bind / dispatch / discard    *)
(*   SpecDeps   concurrently handled requests resolving dependency graphs  *)
(*   SpecYield  concurrently handled requests whose dependencies yield     *)
(*   SpecSeq    requests for every dependency graph, one after the other   *)
(*   SpecStore  concurrently handled requests on the 16-body_updates store *)
(*   SpecMore   as SpecBind, for further path operations, with headers,    *)
(*              content types and response shaping                         *)
(*   SpecRoute  one request at a time through the route lookup             *)
(*   SpecLookup as SpecBind, for the path operations that look an item up  *)
(*              by its id in a module-level items                          *)
(*   SpecServe  one request at a time to 17-dependencies or the app        *)
(*              package: route lookup, dependencies, function, response    *)
(*   SpecSecurity  as SpecServe for 18-security, with a clock and the      *)
(*              access token the client holds                              *)
(***************************************************************************)
EXTENDS Integers, Sequences, FiniteSets, TLC

(***************************************************************************)
(* Texts.  A raw textual value is a sequence of characters, so that its    *)
(* length and its numeric reading are computed, not assumed.               *)
(***************************************************************************)
MaxTextLen == 3

Digits == {"0", "1", "2", "3", "4", "5", "6", "7", "8", "9"}

\* The characters the model builds texts from: a digit, a letter, the sign.
Alphabet == {"3", "a", "-"}

TextsUpTo(n) == UNION {[1..k -> Alphabet] : k \in 0..n}

Texts == TextsUpTo(MaxTextLen)

\* Texts used for the fields of a JSON body: a numeric and a non-numeric one.
BodyTexts == {<<"3">>, <<"a">>}

DigitVal(c) ==
    CASE c = "0" -> 0 [] c = "1" -> 1 [] c = "2" -> 2 [] c = "3" -> 3 [] c = "4" -> 4
      [] c = "5" -> 5 [] c = "6" -> 6 [] c = "7" -> 7 [] c = "8" -> 8 [] c = "9" -> 9

AllDigits(t) == \A i \in 1..Len(t) : t[i] \in Digits

\* int(text): an optional sign followed by at least one digit.
IsIntLiteral(t) ==
    /\ Len(t) >= 1
    /\ IF t[1] = "-" THEN Len(t) >= 2 /\ AllDigits(Tail(t)) ELSE AllDigits(t)

RECURSIVE ParseNat(_)
ParseNat(t) ==
    IF t = << >> THEN 0
    ELSE 10 * ParseNat(SubSeq(t, 1, Len(t) - 1)) + DigitVal(t[Len(t)])

ParseInt(t) == IF t[1] = "-" THEN 0 - ParseNat(Tail(t)) ELSE ParseNat(t)

\* EmailStr: one "@" after a local part, and a domain with an inner dot.
IsEmail(t) ==
    \E i \in 2..Len(t) :
        /\ t[i] = "@"
        /\ \A j \in 1..Len(t) : t[j] = "@" => j = i
        /\ \E j \in (i + 2)..(Len(t) - 1) : t[j] = "."

\* float(text), for the literals the model tries: an integer literal, or one
\* followed by a point and one decimal.
IsFloatLiteral(t) ==
    \/ IsIntLiteral(t)
    \/ /\ Len(t) >= 3
       /\ t[Len(t) - 1] = "."
       /\ t[Len(t)] \in Digits
       /\ IsIntLiteral(SubSeq(t, 1, Len(t) - 2))

\* The value of a float literal, in tenths.
ParseTenths(t) ==
    IF IsIntLiteral(t) THEN 10 * ParseInt(t)
    ELSE LET whole == SubSeq(t, 1, Len(t) - 2)
             tenth == DigitVal(t[Len(t)])
         IN  IF whole[1] = "-" THEN 10 * ParseInt(whole) - tenth
             ELSE 10 * ParseInt(whole) + tenth

\* Letter case, character by character.
UpperLetters ==
    << "A", "B", "C", "D", "E", "F", "G", "H", "I", "J", "K", "L", "M",
       "N", "O", "P", "Q", "R", "S", "T", "U", "V", "W", "X", "Y", "Z" >>

LowerLetters ==
    << "a", "b", "c", "d", "e", "f", "g", "h", "i", "j", "k", "l", "m",
       "n", "o", "p", "q", "r", "s", "t", "u", "v", "w", "x", "y", "z" >>

LowerChar(c) ==
    IF \E i \in 1..Len(UpperLetters) : UpperLetters[i] = c
    THEN LowerLetters[CHOOSE i \in 1..Len(UpperLetters) : UpperLetters[i] = c]
    ELSE c

UpperChar(c) ==
    IF \E i \in 1..Len(LowerLetters) : LowerLetters[i] = c
    THEN UpperLetters[CHOOSE i \in 1..Len(LowerLetters) : LowerLetters[i] = c]
    ELSE c

\* text.lower()
Lower(t) == [i \in 1..Len(t) |-> LowerChar(t[i])]

\* The spellings of a word in every letter case.
CaseVariants(w) ==
    {[i \in 1..Len(w) |-> IF i \in S THEN UpperChar(w[i]) ELSE w[i]] :
        S \in SUBSET (1..Len(w))}

\* The texts a boolean field reads as true and as false.
TrueWords == {<<"t", "r", "u", "e">>, <<"1">>, <<"y", "e", "s">>, <<"o", "n">>}

FalseWords == {<<"f", "a", "l", "s", "e">>, <<"0">>, <<"n", "o">>, <<"o", "f", "f">>}

\* The texts tried for a boolean field: the vocabulary in every letter case,
\* and texts outside of it.
BoolTexts ==
    UNION {CaseVariants(w) : w \in TrueWords \cup FalseWords}
        \cup {<< >>, <<"2">>, <<"1", "0">>, <<"-", "1">>, <<"t">>, <<"y">>, <<"f">>,
              <<"n">>, <<"o">>, <<"t", "r", "u">>, <<"t", "r", "u", "e", "e">>,
              <<"y", "e", "s", "s">>, <<"n", "o", "n">>, <<"o", "n", "e">>}

(***************************************************************************)
(* Raw values, bound values and validation errors.                         *)
(***************************************************************************)
RawNone == [k |-> "none"]

RawText(t) == [k |-> "text", t |-> t]

RawObject(m) == [k |-> "object", fields |-> m]

\* The texts given for one field, in order of appearance: a JSON list, or the
\* values of a key that repeats.
RawList(q) == [k |-> "list", items |-> q]

\* The absent marker a field without value and with default None binds to
\* (Python's None); it is not a text, so it differs from the empty text << >>.
AbsentVal == [k |-> "absent"]

StrVal(t) == [k |-> "str", v |-> t]

IntVal(n) == [k |-> "int", v |-> n]

\* A float, counted in tenths: 50.2 is FloatVal(502), 3.0 is FloatVal(30).
FloatVal(n) == [k |-> "float", v |-> n]

ListVal(q) == [k |-> "list", v |-> q]

BoolVal(b) == [k |-> "bool", v |-> b]

\* The contents of an uploaded file read into memory.
BytesVal(t) == [k |-> "bytes", v |-> t]

\* An UploadFile; of its metadata the model keeps the content type.
UploadVal(t) == [k |-> "upload", content_type |-> t]

\* A set, its members in order of first appearance.
SetVal(q) == [k |-> "set", v |-> q]

ObjVal(m) == [k |-> "object", fields |-> m]

\* A ValidationError: the dotted path as a sequence of segments, and a kind.
Err(loc, kind) == [loc |-> loc, kind |-> kind]

\* Python truthiness of a bound value (`if q:`, `if not short:`).
Truthy(v) ==
    \/ v.k = "str" /\ v.v # << >>
    \/ v.k = "bool" /\ v.v
    \/ v.k = "object"

(***************************************************************************)
(* Declared fields.  A FieldSpec is a record                               *)
(*   name      the parameter / attribute name                              *)
(*   wire      the name it is looked up under in the request (the alias)   *)
(*   source    "path" | "query" | "body"                                   *)
(*   type      "str" | "int" | "float" | "object"                          *)
(*   model     for "object": the name of the nested model                  *)
(*   required  no default is declared                                      *)
(*   default   the declared default (a bound value)                        *)
(*   minLen    min_length, 0 when none is declared                         *)
(*   keyed     the value sits under its wire name in its source (FALSE for *)
(*             a single body parameter, which is the body itself)          *)
(*   wide      the texts the model tries for it: Texts or BodyTexts        *)
(* and, where declared or needed, the further attributes                   *)
(*   texts     the texts the model tries for it instead                    *)
(*   raws      the raw values the model tries for it instead               *)
(*   chars     for a header: the declared name, character by character    *)
(*   convert_underscores   for a header: look it up with hyphens           *)
(*   encoding  for a body field: "form" (Form) or "file" (File); a body    *)
(*             field without it is read from a JSON body                   *)
(*   gt ge     the numeric bounds, exclusive (gt, lt) or inclusive (ge,    *)
(*   lt le     le); those of a float are counted in tenths                 *)
(***************************************************************************)
Field(name, wire, source, type, model, required, default, minLen, keyed, wide) ==
    [name |-> name, wire |-> wire, source |-> source, type |-> type,
     model |-> model, required |-> required, default |-> default,
     minLen |-> minLen, keyed |-> keyed, wide |-> wide]

Required(name, source, type, wide) ==
    Field(name, name, source, type, "", TRUE, AbsentVal, 0, TRUE, wide)

Optional(name, source, type, default, wide) ==
    Field(name, name, source, type, "", FALSE, default, 0, TRUE, wide)

\* Field f with the further attributes `more`.
With(f, more) == more @@ f

BodyModel(name, model, keyed) ==
    Field(name, name, "body", "object", model, TRUE, AbsentVal, 0, keyed, FALSE)

\* 7-body_multiple_parameters: class Item
Item7Fields ==
    << Required("name", "body", "str", FALSE),
       Optional("description", "body", "str", AbsentVal, FALSE),
       Required("price", "body", "float", FALSE),
       Optional("tax", "body", "float", AbsentVal, FALSE) >>

\* 7-body_multiple_parameters: class User
User7Fields ==
    << Required("username", "body", "str", FALSE),
       Optional("full_name", "body", "str", AbsentVal, FALSE) >>

\* class Item of 15-handling_errors with `size: Optional[int] = None`.
Item15FieldsSizeOptional ==
    << Required("title", "body", "str", FALSE),
       Optional("size", "body", "int", AbsentVal, FALSE) >>

\* 15-handling_errors: class Item
Item15Fields ==
    << Required("title", "body", "str", FALSE),
       Required("size", "body", "int", FALSE) >>

\* 16-body_updates: class Item
Item16Fields ==
    << Optional("name", "body", "str", AbsentVal, FALSE),
       Optional("description", "body", "str", AbsentVal, FALSE),
       Optional("price", "body", "float", AbsentVal, FALSE),
       Optional("tax", "body", "float", FloatVal(105), FALSE),
       Optional("tags", "body", "list", ListVal(<< >>), FALSE) >>

\* 12-response_model: class Item
Item12Fields ==
    << Required("name", "body", "str", FALSE),
       Optional("description", "body", "str", AbsentVal, FALSE),
       Required("price", "body", "float", FALSE),
       Optional("tax", "body", "float", FloatVal(105), FALSE),
       Optional("tags", "body", "list", ListVal(<< >>), FALSE) >>

\* The texts tried for an email: a valid address and two that are none.
EmailTexts == {<<"a", "@", "b", ".", "c">>, <<"a", "@", "b">>, <<"a">>}

\* 12-response_model and 13-extra_models: class UserIn
UserInFields ==
    << With(Required("username", "body", "str", FALSE), [texts |-> {<<"a">>}]),
       Required("password", "body", "str", FALSE),
       With(Required("email", "body", "email", FALSE), [texts |-> EmailTexts]),
       With(Optional("full_name", "body", "str", AbsentVal, FALSE), [texts |-> {<<"a">>}]) >>

\* 12-response_model and 13-extra_models: class UserOut
UserOutFields ==
    << Required("username", "body", "str", FALSE),
       Required("email", "body", "email", FALSE),
       Optional("full_name", "body", "str", AbsentVal, FALSE) >>

\* 13-extra_models: class UserInDB
UserInDBFields ==
    << Required("username", "body", "str", FALSE),
       Required("hashed_password", "body", "str", FALSE),
       Required("email", "body", "email", FALSE),
       Optional("full_name", "body", "str", AbsentVal, FALSE) >>

MaxItems == 3

\* The lists tried for the tags of an item: up to MaxItems texts, repeated
\* or not, or no tags at all.
TagsChoices ==
    {RawNone} \cup
        {RawList(q) : q \in UNION {[1..n -> {<<"a">>, <<"3">>}] : n \in 0..MaxItems}}

\* class ItemSet of 9-body_nested_models with `tags: List[str] = []`.
ItemSetFieldsTagsList ==
    << With(Required("name", "body", "str", FALSE), [texts |-> {<<"a">>}]),
       With(Optional("description", "body", "str", AbsentVal, FALSE), [texts |-> {<<"a">>}]),
       Required("price", "body", "float", FALSE),
       With(Optional("tax", "body", "float", AbsentVal, FALSE), [texts |-> {<<"3">>}]),
       With(Optional("tags", "body", "list", ListVal(<< >>), FALSE), [raws |-> TagsChoices]) >>

\* 9-body_nested_models: class ItemSet
ItemSetFields ==
    << With(Required("name", "body", "str", FALSE), [texts |-> {<<"a">>}]),
       With(Optional("description", "body", "str", AbsentVal, FALSE), [texts |-> {<<"a">>}]),
       Required("price", "body", "float", FALSE),
       With(Optional("tax", "body", "float", AbsentVal, FALSE), [texts |-> {<<"3">>}]),
       With(Optional("tags", "body", "set", SetVal(<< >>), FALSE), [raws |-> TagsChoices]) >>

ModelFields(model) ==
    CASE model = "Item7" -> Item7Fields
      [] model = "ItemSet" -> ItemSetFields
      [] model = "User7" -> User7Fields
      [] model = "Item15" -> Item15Fields
      [] model = "Item16" -> Item16Fields
      [] model = "Item12" -> Item12Fields
      [] model = "UserIn" -> UserInFields
      [] model = "UserOut" -> UserOutFields
      [] model = "UserInDB" -> UserInDBFields
      [] OTHER -> << >>

\* GET /items_obr/{item_id} with `needy: str = None` instead of `needy: str`.
ReadUserItemParamsNeedyOptional ==
    << Required("item_id", "path", "str", FALSE),
       Optional("needy", "query", "str", AbsentVal, TRUE),
       Optional("skip", "query", "int", IntVal(0), FALSE),
       Optional("limit", "query", "int", AbsentVal, FALSE) >>

\* 3-query_parameters: GET /items_obr/{item_id}
ReadUserItemParams ==
    << Required("item_id", "path", "str", FALSE),
       Required("needy", "query", "str", TRUE),
       Optional("skip", "query", "int", IntVal(0), FALSE),
       Optional("limit", "query", "int", AbsentVal, FALSE) >>

\* 7-body_multiple_parameters: PUT /items/many_body/{item_id}
UpdateItemManyBodyParams ==
    << Required("item_id", "path", "int", FALSE),
       BodyModel("item", "Item7", TRUE),
       BodyModel("user", "User7", TRUE) >>

\* 6-pp_numeric_validations: GET /items/p_prms/{item_id}
ReadItemsPPrmsParams ==
    << Required("item_id", "path", "int", TRUE),
       Field("q", "item-query", "query", "str", "", FALSE, AbsentVal, 0, TRUE, TRUE) >>

\* GET /items/metadata/ with min_length=2 instead of min_length=3.
ReadItemsMetadataParamsMinLen2 ==
    << Field("q", "q", "query", "str", "", FALSE, AbsentVal, 2, TRUE, TRUE) >>

\* 5-qp_string_validations: GET /items/metadata/
ReadItemsMetadataParams ==
    << Field("q", "q", "query", "str", "", FALSE, AbsentVal, 3, TRUE, TRUE) >>

\* The schema of the specification's scenario:
\* {id: integer required path; q: string optional query, min_length=3}.
ScenarioParams ==
    << Required("id", "path", "int", TRUE),
       Field("q", "q", "query", "str", "", FALSE, AbsentVal, 3, TRUE, TRUE) >>

\* 15-handling_errors: GET /items_except/{item_id}
ReadItemExceptParams ==
    << Required("item_id", "path", "int", TRUE) >>

\* The item ids tried for GET /items-header/{item_id}: the stored one and
\* texts that are not stored.
HeaderItemIdTexts == (Texts \ {<< >>}) \cup {<<"f", "o", "o">>}

\* 15-handling_errors: GET /items-header/{item_id}
ReadItemHeaderParams ==
    << With(Required("item_id", "path", "str", FALSE), [texts |-> HeaderItemIdTexts]) >>

\* The item ids tried for GET /items/{item_id} of 13-extra_models.
UnionItemIdTexts ==
    {<<"i", "t", "e", "m", "1">>, <<"i", "t", "e", "m", "2">>, <<"i", "t", "e", "m", "3">>}

\* 13-extra_models: GET /items/{item_id}
ReadItemUnionParams ==
    << With(Required("item_id", "path", "str", FALSE), [texts |-> UnionItemIdTexts]) >>

\* 15-handling_errors: POST /items_err/
CreateItemErrParams ==
    << BodyModel("item", "Item15", FALSE) >>

\* GET /items/{item_id} of 3-query_parameters with `short: str = "False"`.
ReadItemShortParamsStr ==
    << Required("item_id", "path", "str", FALSE),
       Optional("q", "query", "str", AbsentVal, FALSE),
       With(Optional("short", "query", "str", StrVal(<<"F", "a", "l", "s", "e">>), FALSE),
            [texts |-> BoolTexts]) >>

\* 3-query_parameters: GET /items/{item_id}
ReadItemShortParams ==
    << Required("item_id", "path", "str", FALSE),
       Optional("q", "query", "str", AbsentVal, FALSE),
       With(Optional("short", "query", "bool", BoolVal(FALSE), FALSE),
            [texts |-> BoolTexts]) >>

\* The texts tried for a q with min_length=3: empty, too short, long enough.
QueryTexts == {<< >>, <<"a", "b">>, <<"a", "b", "c">>}

Fixedquery == <<"f", "i", "x", "e", "d", "q", "u", "e", "r", "y">>

\* GET /items/default/ with `Query(..., min_length=3)`: no default.
ReadItemsDefaultParamsRequired ==
    << With(Field("q", "q", "query", "str", "", TRUE, AbsentVal, 3, TRUE, FALSE),
            [texts |-> QueryTexts]) >>

\* 5-qp_string_validations: GET /items/default/
ReadItemsDefaultParams ==
    << With(Field("q", "q", "query", "str", "", FALSE, StrVal(Fixedquery), 3, TRUE, FALSE),
            [texts |-> QueryTexts]) >>

\* 5-qp_string_validations: GET /items/required/
ReadItemsRequiredParams ==
    << With(Field("q", "q", "query", "str", "", TRUE, AbsentVal, 3, TRUE, FALSE),
            [texts |-> QueryTexts]) >>

\* POST /login/ with `Body(...)` instead of `Form(...)`.
LoginParamsBody ==
    << Required("username", "body", "str", FALSE),
       Required("password", "body", "str", FALSE) >>

\* 14-form_and_files: POST /login/
LoginParams ==
    << With(Required("username", "body", "str", FALSE), [encoding |-> "form"]),
       With(Required("password", "body", "str", FALSE), [encoding |-> "form"]) >>

\* 14-form_and_files: POST /form_files/
CreateFileParams ==
    << With(Required("file", "body", "bytes", FALSE), [encoding |-> "file"]),
       With(Required("fileb", "body", "upload", FALSE), [encoding |-> "file"]),
       With(Required("token", "body", "str", FALSE), [encoding |-> "form"]) >>

\* The item ids tried for 12-response_model: the stored ones and another.
ItemIdTexts ==
    {<<"f", "o", "o">>, <<"b", "a", "r">>, <<"b", "a", "z">>, <<"q", "u", "x">>}

\* 12-response_model: GET /items/{item_id}, /items/{item_id}/name and
\* /items/{item_id}/public
ReadItem12Params ==
    << With(Required("item_id", "path", "str", FALSE), [texts |-> ItemIdTexts]) >>

\* 12-response_model: POST /user_out/
CreateUserOutParams == << BodyModel("user", "UserIn", FALSE) >>

\* 13-extra_models: POST /user/
CreateUserParams == << BodyModel("user_in", "UserIn", FALSE) >>

UserAgentChars == <<"u", "s", "e", "r", "_", "a", "g", "e", "n", "t">>

StrangeHeaderChars ==
    <<"s", "t", "r", "a", "n", "g", "e", "_", "h", "e", "a", "d", "e", "r">>

\* 11-cookie_headers_parameters: GET /items/header/
ReadItemsHeaderParams ==
    << With(Optional("user_agent", "header", "str", AbsentVal, FALSE),
            [chars |-> UserAgentChars, convert_underscores |-> TRUE,
             texts |-> {<<"a">>, <<"b">>}]) >>

\* GET /items/header_convert_/ with `Header(None)`: underscores converted.
ReadItemsHeaderConvertParamsDefault ==
    << With(Optional("strange_header", "header", "str", AbsentVal, FALSE),
            [chars |-> StrangeHeaderChars, convert_underscores |-> TRUE,
             texts |-> {<<"a">>, <<"b">>}]) >>

\* 11-cookie_headers_parameters: GET /items/header_convert_/
ReadItemsHeaderConvertParams ==
    << With(Optional("strange_header", "header", "str", AbsentVal, FALSE),
            [chars |-> StrangeHeaderChars, convert_underscores |-> FALSE,
             texts |-> {<<"a">>, <<"b">>}]) >>

MaxDigits == 4

\* The texts tried for a bounded item_id: signs and digits around the bounds
\* 0 and 1000, up to MaxDigits characters.
IdTexts == UNION {[1..k -> {"0", "1", "-"}] : k \in 1..MaxDigits}

\* The texts tried for a bounded size: around 0 and 10.5, and a non-number.
SizeTexts ==
    {<<"0">>, <<"0", ".", "1">>, <<"1">>, <<"1", "0", ".", "4">>,
     <<"1", "0", ".", "5">>, <<"1", "1">>, <<"-", "1">>, <<"a">>}

\* GET /items/int_valid/{item_id} with ge=0 instead of gt=0.
ReadItemsIntValidParamsGe ==
    << With(Required("item_id", "path", "int", FALSE),
            [ge |-> 0, le |-> 1000, texts |-> IdTexts]),
       With(Required("q", "query", "str", FALSE), [texts |-> {<<"a">>}]) >>

\* 6-pp_numeric_validations: GET /items/int_valid/{item_id}
ReadItemsIntValidParams ==
    << With(Required("item_id", "path", "int", FALSE),
            [gt |-> 0, le |-> 1000, texts |-> IdTexts]),
       With(Required("q", "query", "str", FALSE), [texts |-> {<<"a">>}]) >>

\* 6-pp_numeric_validations: GET /items/float_valid/{item_id}
ReadItemsFloatValidParams ==
    << With(Required("item_id", "path", "int", FALSE),
            [ge |-> 0, le |-> 1000, texts |-> IdTexts]),
       With(Required("q", "query", "str", FALSE), [texts |-> {<<"a">>}]),
       With(Required("size", "query", "float", FALSE),
            [gt |-> 0, lt |-> 105, texts |-> SizeTexts]) >>

\* 7-body_multiple_parameters: PUT /items/single_body/{item_id}
UpdateItemSingleBodyParams ==
    << With(Required("item_id", "path", "int", FALSE),
            [ge |-> 0, le |-> 1000,
             texts |-> {<<"0">>, <<"1", "0", "0", "0">>, <<"1", "0", "0", "1">>,
                        <<"-", "1">>, <<"a">>}]),
       Optional("q", "query", "str", AbsentVal, FALSE),
       Field("item", "item", "body", "object", "Item7", FALSE, AbsentVal, 0, FALSE, FALSE) >>

\* 9-body_nested_models: PUT /items/set/{item_id}
UpdateItemSetParams ==
    << Required("item_id", "path", "int", FALSE),
       BodyModel("item", "ItemSet", FALSE) >>

\* The further path operations, explored by SpecMore.
MoreEndpoints ==
    {"items_short", "items_set", "default", "required", "items_obr",
     "int_valid", "float_valid", "single_body", "header", "header_convert_",
     "login", "form_files",
     "rm_read_item", "rm_read_item_name", "rm_read_item_public_data",
     "user_out", "user"}

Endpoints ==
    {"items_obr", "many_body", "p_prms", "metadata", "scenario",
     "items_except", "items_err"}

\* The path operations that look an item up by its id in the module's items.
LookupEndpoints == {"items_header", "items_union"}

Params(ep) ==
    CASE ep = "items_obr" -> ReadUserItemParams
      [] ep = "many_body" -> UpdateItemManyBodyParams
      [] ep = "p_prms" -> ReadItemsPPrmsParams
      [] ep = "metadata" -> ReadItemsMetadataParams
      [] ep = "scenario" -> ScenarioParams
      [] ep = "items_except" -> ReadItemExceptParams
      [] ep = "items_err" -> CreateItemErrParams
      [] ep = "items_header" -> ReadItemHeaderParams
      [] ep = "items_union" -> ReadItemUnionParams
      [] ep = "items_short" -> ReadItemShortParams
      [] ep = "items_set" -> UpdateItemSetParams
      [] ep = "int_valid" -> ReadItemsIntValidParams
      [] ep = "float_valid" -> ReadItemsFloatValidParams
      [] ep = "single_body" -> UpdateItemSingleBodyParams
      [] ep \in {"rm_read_item", "rm_read_item_name", "rm_read_item_public_data"} ->
            ReadItem12Params
      [] ep = "user_out" -> CreateUserOutParams
      [] ep = "user" -> CreateUserParams
      [] ep = "login" -> LoginParams
      [] ep = "form_files" -> CreateFileParams
      [] ep = "header" -> ReadItemsHeaderParams
      [] ep = "header_convert_" -> ReadItemsHeaderConvertParams
      [] ep = "default" -> ReadItemsDefaultParams
      [] ep = "required" -> ReadItemsRequiredParams

\* The application (script) a path operation belongs to.
AppOf(ep) ==
    CASE ep \in {"items_except", "items_err", "items_header"} -> "15-handling_errors"
      [] ep \in {"items_obr", "items_short"} -> "3-query_parameters"
      [] ep \in {"many_body", "single_body"} -> "7-body_multiple_parameters"
      [] ep = "items_set" -> "9-body_nested_models"
      [] ep \in {"login", "form_files"} -> "14-form_and_files"
      [] ep \in {"rm_read_item", "rm_read_item_name", "rm_read_item_public_data",
                 "user_out"} -> "12-response_model"
      [] ep \in {"user", "items_union"} -> "13-extra_models"
      [] ep \in {"header", "header_convert_"} -> "11-cookie_headers_parameters"
      [] ep \in {"p_prms", "int_valid", "float_valid"} -> "6-pp_numeric_validations"
      [] ep \in {"metadata", "default", "required"} -> "5-qp_string_validations"
      [] OTHER -> "scenario"

(***************************************************************************)
(* The requests the model tries: for every declared field, no value or one *)
(* of its texts; for a body model, no body or an object of such fields.    *)
(***************************************************************************)
FieldTexts(f) ==
    IF "texts" \in DOMAIN f THEN f.texts
    ELSE IF f.source = "path" THEN (IF f.wide THEN Texts ELSE BodyTexts) \ {<< >>}
    ELSE IF f.wide THEN Texts ELSE BodyTexts

ScalarChoices(f) ==
    IF "raws" \in DOMAIN f THEN f.raws
    ELSE
    {RawText(t) : t \in FieldTexts(f)}
        \cup (IF f.source = "path" THEN {} ELSE {RawNone})

SeqNames(fields) == {fields[i].name : i \in 1..Len(fields)}

ByName(fields, n) == fields[CHOOSE i \in 1..Len(fields) : fields[i].name = n]

ObjectChoices(fields) ==
    LET all == UNION {ScalarChoices(fields[i]) : i \in 1..Len(fields)}
    IN  {RawObject(m) : m \in
            {m \in [SeqNames(fields) -> all] :
                \A n \in SeqNames(fields) : m[n] \in ScalarChoices(ByName(fields, n))}}

RawChoices(f) ==
    IF f.type = "object"
    THEN {RawNone} \cup ObjectChoices(ModelFields(f.model))
    ELSE ScalarChoices(f)

FromSource(ep, source) ==
    {i \in 1..Len(Params(ep)) : Params(ep)[i].source = source}

\* The maps from the wire names of one source to raw values.
SourceMaps(ep, source) ==
    LET P == Params(ep)
        idx == FromSource(ep, source)
        wires == {P[i].wire : i \in idx}
        all == UNION {RawChoices(P[i]) : i \in idx}
    IN  {m \in [wires -> all] :
            \A i \in idx : m[P[i].wire] \in RawChoices(P[i])}

\* The bodies: none, or (one unkeyed body parameter) that parameter's object,
\* or an object keyed by the names of the body parameters.
BodyChoices(ep) ==
    LET P == Params(ep)
        idx == FromSource(ep, "body")
    IN  IF idx = {} THEN {RawNone}
        ELSE IF \E i \in idx : ~P[i].keyed
        THEN RawChoices(P[CHOOSE i \in idx : ~P[i].keyed])
        ELSE {RawNone} \cup {RawObject(m) : m \in SourceMaps(ep, "body")}

Requests(ep) ==
    {[ep |-> ep, path |-> p, query |-> q, body |-> b] :
        p \in SourceMaps(ep, "path"), q \in SourceMaps(ep, "query"),
        b \in BodyChoices(ep)}

\* A header name in the spellings tried: as given, capitalised after each
\* separator, in upper case, and each of these with the other separator.
Swapped(t) ==
    [i \in 1..Len(t) |-> IF t[i] = "_" THEN "-" ELSE IF t[i] = "-" THEN "_" ELSE t[i]]

Capitalised(t) ==
    [i \in 1..Len(t) |->
        IF i = 1 \/ t[i - 1] \in {"_", "-"} THEN UpperChar(t[i]) ELSE t[i]]

Spellings(t) ==
    LET cased == {t, Capitalised(t), [i \in 1..Len(t) |-> UpperChar(t[i])]}
    IN  cased \cup {Swapped(u) : u \in cased}

\* The header names a request for path operation ep may carry.
HeaderNames(ep) ==
    UNION {Spellings(Params(ep)[i].chars) : i \in FromSource(ep, "header")}
        \cup {<<"h", "o", "s", "t">>}

\* The headers of a request: at most two, no two names differing by letter
\* case only.
HeaderMaps(ep) ==
    IF FromSource(ep, "header") = {} THEN {<< >>}
    ELSE LET texts == UNION {FieldTexts(Params(ep)[i]) : i \in FromSource(ep, "header")}
         IN  UNION {[names -> {RawText(t) : t \in texts}] :
                names \in {N \in SUBSET HeaderNames(ep) :
                            /\ Cardinality(N) <= 2
                            /\ \A g, h \in N : Lower(g) = Lower(h) => g = h}}

\* The body encoding a field is read from.
FieldEncoding(f) == IF "encoding" \in DOMAIN f THEN f.encoding ELSE "json"

\* The body encoding the schema of a path operation expects: multipart with
\* a file among its body fields, else form-encoded with a form field, else
\* JSON; none without body fields.
Encoding(ep) ==
    LET P == Params(ep)
        idx == FromSource(ep, "body")
    IN  IF idx = {} THEN "none"
        ELSE IF \E i \in idx : FieldEncoding(P[i]) = "file" THEN "multipart"
        ELSE IF \E i \in idx : FieldEncoding(P[i]) = "form" THEN "form"
        ELSE "json"

\* The content types a request for path operation ep may declare.
ContentTypes(ep) ==
    IF Encoding(ep) = "none" THEN {"none"} ELSE {"json", "form", "multipart"}

\* The request declares a content type other than the one expected.
MediaMismatch(rq) ==
    /\ "ctype" \in DOMAIN rq
    /\ Encoding(rq.ep) # "none"
    /\ rq.ctype # Encoding(rq.ep)

\* The requests tried for the further path operations: with headers and a
\* declared content type.
MoreRequests(ep) ==
    {With(rq, [headers |-> h, ctype |-> c]) :
        rq \in Requests(ep), h \in HeaderMaps(ep), c \in ContentTypes(ep)}

(***************************************************************************)
(* The request binder: per field, extract / default-or-MISSING / coerce /  *)
(* constraints; the errors of all fields are collected in field order.     *)
(***************************************************************************)
\* The declared name with every underscore replaced by a hyphen.
Hyphenate(t) == [i \in 1..Len(t) |-> IF t[i] = "_" THEN "-" ELSE t[i]]

\* The header a header-sourced field is looked up under.
HeaderName(f) == IF f.convert_underscores THEN Hyphenate(f.chars) ELSE f.chars

\* Step 1: the raw value of a top-level field in the request.
Extract(f, rq) ==
    IF f.source = "header"
    THEN LET hits == {h \in DOMAIN rq.headers : Lower(h) = Lower(HeaderName(f))}
         IN  IF hits = {} THEN RawNone ELSE rq.headers[CHOOSE h \in hits : TRUE]
    ELSE IF f.source = "body"
    THEN IF ~f.keyed THEN rq.body
         ELSE IF rq.body.k = "object" /\ f.wire \in DOMAIN rq.body.fields
              THEN rq.body.fields[f.wire]
              ELSE RawNone
    ELSE IF f.wire \in DOMAIN rq[f.source] THEN rq[f.source][f.wire] ELSE RawNone

\* The dotted path of a top-level field.
TopLoc(f) == IF f.keyed THEN <<f.source, f.wire>> ELSE <<f.source>>

\* Step 3 for a scalar: the text coerced to the field's type.
Coerce(f, t) ==
    CASE f.type = "str" -> [ok |-> TRUE, val |-> StrVal(t)]
      [] f.type = "int" ->
            IF IsIntLiteral(t) THEN [ok |-> TRUE, val |-> IntVal(ParseInt(t))]
            ELSE [ok |-> FALSE, val |-> AbsentVal]
      [] f.type = "float" ->
            IF IsFloatLiteral(t) THEN [ok |-> TRUE, val |-> FloatVal(ParseTenths(t))]
            ELSE [ok |-> FALSE, val |-> AbsentVal]
      [] f.type = "email" ->
            IF IsEmail(t) THEN [ok |-> TRUE, val |-> StrVal(t)]
            ELSE [ok |-> FALSE, val |-> AbsentVal]
      [] f.type = "bytes" -> [ok |-> TRUE, val |-> BytesVal(t)]
      [] f.type = "upload" -> [ok |-> TRUE, val |-> UploadVal(t)]
      [] f.type = "bool" ->
            IF Lower(t) \in TrueWords THEN [ok |-> TRUE, val |-> BoolVal(TRUE)]
            ELSE IF Lower(t) \in FalseWords THEN [ok |-> TRUE, val |-> BoolVal(FALSE)]
            ELSE [ok |-> FALSE, val |-> AbsentVal]
      [] OTHER -> [ok |-> FALSE, val |-> AbsentVal]

\* The number n violates a numeric bound declared for field f.
OutOfBounds(f, n) ==
    \/ "gt" \in DOMAIN f /\ ~(n > f.gt)
    \/ "ge" \in DOMAIN f /\ ~(n >= f.ge)
    \/ "lt" \in DOMAIN f /\ ~(n < f.lt)
    \/ "le" \in DOMAIN f /\ ~(n <= f.le)

\* Step 4: the constraint violations of a coerced value.
ConstraintErrs(f, v, loc) ==
    IF v.k = "str" /\ Len(v.v) < f.minLen THEN <<Err(loc, "RANGE_ERROR")>>
    ELSE IF v.k \in {"int", "float"} /\ OutOfBounds(f, v.v) THEN <<Err(loc, "RANGE_ERROR")>>
    ELSE << >>

RECURSIVE ConcatAll(_)
ConcatAll(ss) == IF ss = << >> THEN << >> ELSE Head(ss) \o ConcatAll(Tail(ss))

Range(q) == {q[i] : i \in 1..Len(q)}

\* Aggregation: every error of every field, in field order.
Aggregate(ss) == ConcatAll(ss)

RECURSIVE Dedup(_)
\* De-duplication by value equality: the first appearance of each member.
Dedup(q) ==
    IF q = << >> THEN << >>
    ELSE LET front == Dedup(SubSeq(q, 1, Len(q) - 1))
             last == q[Len(q)]
         IN  IF last \in Range(front) THEN front ELSE Append(front, last)

\* Step 3 for a list or set of strings: a single text is wrapped, repeated
\* values are taken in order of appearance, a set de-duplicates.
CoerceMany(f, rv) ==
    LET given == IF rv.k = "list" THEN [i \in 1..Len(rv.items) |-> StrVal(rv.items[i])]
                 ELSE <<StrVal(rv.t)>>
    IN  IF f.type = "set" THEN SetVal(Dedup(given)) ELSE ListVal(given)

RECURSIVE BindField(_, _, _)
BindField(f, rv, loc) ==
    IF rv.k = "none"
    THEN IF f.required
         THEN [errs |-> <<Err(loc, "MISSING")>>, val |-> AbsentVal]
         ELSE [errs |-> << >>, val |-> f.default]
    ELSE IF f.type \in {"list", "set"}
    THEN IF rv.k \in {"list", "text"}
         THEN [errs |-> << >>, val |-> CoerceMany(f, rv)]
         ELSE [errs |-> <<Err(loc, "TYPE_ERROR")>>, val |-> AbsentVal]
    ELSE IF f.type = "object"
    THEN IF rv.k # "object"
         THEN [errs |-> <<Err(loc, "TYPE_ERROR")>>, val |-> AbsentVal]
         ELSE LET fields == ModelFields(f.model)
                  sub == [i \in 1..Len(fields) |->
                            BindField(fields[i],
                                      IF fields[i].wire \in DOMAIN rv.fields
                                      THEN rv.fields[fields[i].wire] ELSE RawNone,
                                      loc \o <<fields[i].wire>>)]
              IN  [errs |-> Aggregate([i \in 1..Len(fields) |-> sub[i].errs]),
                   val |-> ObjVal([n \in SeqNames(fields) |->
                            sub[CHOOSE i \in 1..Len(fields) : fields[i].name = n].val])]
    ELSE IF rv.k # "text"
    THEN [errs |-> <<Err(loc, "TYPE_ERROR")>>, val |-> AbsentVal]
    ELSE LET c == Coerce(f, rv.t)
         IN  IF ~c.ok
             THEN [errs |-> <<Err(loc, "TYPE_ERROR")>>, val |-> AbsentVal]
             ELSE [errs |-> ConstraintErrs(f, c.val, loc), val |-> c.val]

\* bind(schema, rawRequest): the bound values and the ordered error list.
\* Step 5: with a content type mismatch the body fields are skipped and one
\* request-level error takes the place of the first of them.
Bind(rq) ==
    LET P == Params(rq.ep)
        skipped == {i \in 1..Len(P) : P[i].source = "body" /\ MediaMismatch(rq)}
        res == [i \in 1..Len(P) |->
                  IF i \in skipped
                  THEN [errs |-> IF \A j \in skipped : i <= j
                                 THEN <<Err(<<"body">>, "UNSUPPORTED_MEDIA_TYPE")>>
                                 ELSE << >>,
                        val |-> AbsentVal]
                  ELSE BindField(P[i], Extract(P[i], rq), TopLoc(P[i]))]
    IN  [errors |-> Aggregate([i \in 1..Len(P) |-> res[i].errs]),
         values |-> [n \in {P[i].name : i \in (1..Len(P)) \ skipped} |->
                        res[CHOOSE i \in 1..Len(P) : P[i].name = n].val]]

(***************************************************************************)
(* Path operation functions and exception handlers.                        *)
(***************************************************************************)
Returned(content) == [raised |-> FALSE, status |-> 200, content |-> content]

\* The function ended with an exception no handler is registered for.
Failed == [raised |-> FALSE, status |-> 500, content |-> << >>]

\* 12-response_model: `items` as the module leaves it, its second assignment.
Items12 ==
    [id \in {<<"f", "o", "o">>, <<"b", "a", "r">>, <<"b", "a", "z">>} |->
        CASE id = <<"f", "o", "o">> ->
                [n \in {"name", "price"} |->
                    IF n = "name" THEN StrVal(<<"Foo">>) ELSE FloatVal(502)]
          [] id = <<"b", "a", "r">> ->
                [n \in {"name", "description", "price", "tax"} |->
                    CASE n = "name" -> StrVal(<<"Bar">>)
                      [] n = "description" -> StrVal(<<"The Bar fighters">>)
                      [] n = "price" -> IntVal(62)
                      [] OTHER -> FloatVal(202)]
          [] OTHER ->
                [n \in {"name", "description", "price", "tax"} |->
                    CASE n = "name" -> StrVal(<<"Baz">>)
                      [] n = "description" -> StrVal(<<"There goes my baz">>)
                      [] n = "price" -> FloatVal(502)
                      [] OTHER -> FloatVal(105)]]

\* Model(**kwargs): the declared fields from the keyword arguments or their
\* defaults; other keywords are ignored.
Construct(model, kwargs) ==
    LET fields == ModelFields(model)
    IN  [n \in SeqNames(fields) |->
            IF n \in DOMAIN kwargs THEN kwargs[n] ELSE ByName(fields, n).default]

\* 13-extra_models: fake_password_hasher
fake_password_hasher(raw_password) ==
    StrVal(<<"s", "u", "p", "e", "r", "s", "e", "c", "r", "e", "t">> \o raw_password.v)

\* 13-extra_models: fake_save_user
fake_save_user(user_in) ==
    LET hashed_password == fake_password_hasher(user_in["password"])
    IN  Construct("UserInDB",
                  [n \in DOMAIN user_in \cup {"hashed_password"} |->
                      IF n = "hashed_password" THEN hashed_password ELSE user_in[n]])

Raised(status, detail) == [raised |-> TRUE, status |-> status, content |-> detail]

\* raise HTTPException(status_code, detail, headers)
RaisedWith(status, detail, headers) == With(Raised(status, detail), [headers |-> headers])

\* 15-handling_errors: items
Items15 == [id \in {<<"f", "o", "o">>} |-> StrVal(<<"The Foo Wrestlers">>)]

Dict(m) == [k |-> "dict", v |-> m]

List(q) == [k |-> "list", v |-> q]

\* 13-extra_models: the values assigned to the module's name `items`, in the
\* order of the assignments: the mapping of item1 and item2, then the list.
ItemsAssignments13 ==
    << Dict([id \in {<<"i", "t", "e", "m", "1">>, <<"i", "t", "e", "m", "2">>} |->
                IF id = <<"i", "t", "e", "m", "1">>
                THEN [n \in {"description", "type"} |->
                        IF n = "description"
                        THEN StrVal(<<"All my friends drive a low rider">>)
                        ELSE StrVal(<<"car">>)]
                ELSE [n \in {"description", "type", "size"} |->
                        CASE n = "description" ->
                                StrVal(<<"Music is my aeroplane, it's my aeroplane">>)
                          [] n = "type" -> StrVal(<<"plane">>)
                          [] OTHER -> IntVal(5)]]),
       List(<< [n \in {"name", "description"} |->
                    IF n = "name" THEN StrVal(<<"Foo">>)
                    ELSE StrVal(<<"There comes my hero">>)],
               [n \in {"name", "description"} |->
                    IF n = "name" THEN StrVal(<<"Red">>)
                    ELSE StrVal(<<"It's my aeroplane">>)] >>) >>

\* The mapping declared above GET /items/{item_id}.
ItemsDeclared13 == ItemsAssignments13[1]

\* 13-extra_models: `items` when a request is handled.  A function looks the
\* name up in the module when it runs, after the module has been executed
\* to its end: the name holds what was assigned to it last.
Items13 == ItemsAssignments13[Len(ItemsAssignments13)]

\* container[key] for a text key: the value stored under it in a dict; a
\* KeyError for a key a dict does not hold, a TypeError for a list.
Subscript(container, key) ==
    IF container.k = "dict" /\ key \in DOMAIN container.v
    THEN Returned(container.v[key])
    ELSE Failed

\* `results = {...}; if q: results.update({"q": q}); return results`
WithQ(base, q) ==
    IF Truthy(q) THEN [n \in DOMAIN base \cup {"q"} |-> IF n = "q" THEN q ELSE base[n]]
    ELSE base

\* The path operation function of each path operation, applied to its bound
\* arguments.
Handler(ep, args) ==
    CASE ep = "items_obr" ->
            Returned([n \in {"item_id", "needy", "skip", "limit"} |-> args[n]])
      [] ep = "many_body" ->
            Returned([n \in {"item_id", "item", "user"} |-> args[n]])
      [] ep \in {"p_prms", "int_valid", "float_valid"} ->
            Returned(WithQ([n \in {"item_id"} |-> args[n]], args["q"]))
      [] ep \in {"rm_read_item", "rm_read_item_name", "rm_read_item_public_data"} ->
            IF args["item_id"].v \in DOMAIN Items12
            THEN Returned(Items12[args["item_id"].v])
            ELSE Failed
      [] ep = "user_out" -> Returned(args["user"].fields)
      [] ep = "user" -> Returned(fake_save_user(args["user_in"].fields))
      [] ep = "login" -> Returned([n \in {"username"} |-> args[n]])
      [] ep = "form_files" ->
            Returned([n \in {"file_size", "token", "fileb_content_type"} |->
                        CASE n = "file_size" -> IntVal(Len(args["file"].v))
                          [] n = "token" -> args["token"]
                          [] OTHER -> StrVal(args["fileb"].content_type)])
      [] ep = "header" -> Returned([n \in {"User-Agent"} |-> args["user_agent"]])
      [] ep = "header_convert_" ->
            Returned([n \in {"strange_header"} |-> args["strange_header"]])
      [] ep = "single_body" ->
            LET results == WithQ([n \in {"item_id"} |-> args[n]], args["q"])
            IN  IF Truthy(args["item"])
                THEN Returned([n \in DOMAIN results \cup {"item"} |->
                                IF n = "item" THEN args["item"] ELSE results[n]])
                ELSE Returned(results)
      [] ep = "metadata" ->
            Returned(WithQ([n \in {"items"} |-> StrVal(<<"Foo", "Bar">>)], args["q"]))
      [] ep = "items_except" ->
            IF args["item_id"].v = 3 THEN Raised(418, "Nope! I don't like 3.")
            ELSE Returned([n \in {"item_id"} |-> args[n]])
      [] ep = "items_err" -> Returned(args["item"].fields)
      [] ep = "items_header" ->
            IF args["item_id"].v \notin DOMAIN Items15
            THEN RaisedWith(404, "Item not found",
                            [h \in {"X-Error"} |-> "There goes my error"])
            ELSE Returned([n \in {"item"} |-> Items15[args["item_id"].v]])
      [] ep = "items_union" -> Subscript(Items13, args["item_id"].v)
      [] ep = "items_set" ->
            Returned([n \in {"item_id", "item"} |-> args[n]])
      [] ep \in {"default", "required"} ->
            Returned(WithQ([n \in {"items"} |-> StrVal(<<"Foo", "Bar">>)], args["q"]))
      [] ep = "items_short" ->
            LET item == WithQ([n \in {"item_id"} |-> args[n]], args["q"])
            IN  IF ~Truthy(args["short"])
                THEN Returned([n \in DOMAIN item \cup {"description"} |->
                                IF n = "description"
                                THEN StrVal(<<"This is an amazing item that has a long description">>)
                                ELSE item[n]])
                ELSE Returned(item)
      [] OTHER -> Returned(args)

\* The registrations of 15-handling_errors with the two handlers of
\* RequestValidationError in the other order.
RegistrationsSwapped(app) ==
    IF app = "15-handling_errors"
    THEN << [exc |-> "UnicornException", handler |-> "unicorn_exception_handler"],
            [exc |-> "StarletteHTTPException", handler |-> "http_exception_handler"],
            [exc |-> "RequestValidationError", handler |-> "validation_json"],
            [exc |-> "RequestValidationError", handler |-> "validation_text"] >>
    ELSE << >>

\* The exception handlers an application registers, in the order of its
\* @app.exception_handler decorators.
Registrations(app) ==
    IF app = "15-handling_errors"
    THEN << [exc |-> "UnicornException", handler |-> "unicorn_exception_handler"],
            [exc |-> "StarletteHTTPException", handler |-> "http_exception_handler"],
            [exc |-> "RequestValidationError", handler |-> "validation_text"],
            [exc |-> "RequestValidationError", handler |-> "validation_json"] >>
    ELSE << >>

\* The framework's handler for an exception class nobody registered for.
DefaultHandler(exc) ==
    IF exc = "RequestValidationError" THEN "default_validation" ELSE "default_http"

SetMax(S) == CHOOSE x \in S : \A y \in S : y <= x

\* Registering a handler for a class replaces the one registered before.
HandlerFor(app, exc) ==
    LET regs == Registrations(app)
        idx == {i \in 1..Len(regs) : regs[i].exc = exc}
    IN  IF idx = {} THEN DefaultHandler(exc) ELSE regs[SetMax(idx)].handler

\* cause: "return" | "validation" | "http_exception", what the response answers.
Response(cause, status, media, content) ==
    [cause |-> cause, status |-> status, media |-> media, content |-> content]

\* The response an exception handler builds for a RequestValidationError
\* carrying `errors`, raised for request rq.
OnValidationError(h, errors, rq) ==
    CASE h = "validation_json" ->
            Response("validation", 422, "json", [detail |-> errors, body |-> rq.body])
      [] h = "validation_text" ->
            Response("validation", 400, "text", [detail |-> errors])
      [] OTHER -> Response("validation", 422, "json", [detail |-> errors])

\* The response an exception handler builds for an HTTPException.
OnHTTPException(h, status, detail) ==
    IF h = "http_exception_handler" THEN Response("http_exception", status, "text", [detail |-> detail])
    ELSE Response("http_exception", status, "json", [detail |-> detail])

\* The headers of that response.  The framework's handler passes the headers
\* of the exception on; http_exception_handler builds its PlainTextResponse
\* from exc.detail and exc.status_code alone.
HeadersSent(h, raised) ==
    IF h # "http_exception_handler" /\ "headers" \in DOMAIN raised THEN raised.headers
    ELSE << >>

\* The response with the headers the handler set, if it set any.
WithHeaders(resp, headers) ==
    IF headers = << >> THEN resp ELSE With(resp, [headers |-> headers])

(***************************************************************************)
(* The response shaper: the returned value is converted to the declared    *)
(* response model and filtered by the policy of the path operation.        *)
(***************************************************************************)
\* POST /user_out/ declared with response_model=UserIn, as /user_in/ is.
CreateUserOutResponseModelUserIn == "UserIn"

\* 12-response_model: POST /user_out/, response_model=UserOut
CreateUserOutResponseModel == "UserOut"

\* The declared response model of a path operation, "none" without one.
ResponseModel(ep) ==
    CASE ep \in {"rm_read_item", "rm_read_item_name", "rm_read_item_public_data"} ->
            "Item12"
      [] ep = "user_out" -> CreateUserOutResponseModel
      [] ep = "user" -> "UserOut"
      [] OTHER -> "none"

\* GET /items/{item_id} of 12-response_model without
\* response_model_exclude_unset.
ReadItemPolicyAll == [exclude_unset |-> FALSE]

\* 12-response_model: GET /items/{item_id}
ReadItemPolicy == [exclude_unset |-> TRUE]

\* GET /items/{item_id}/name with response_model_include={"name"}.
ReadItemNamePolicyNameOnly == [exclude_unset |-> FALSE, include |-> {"name"}]

\* 12-response_model: GET /items/{item_id}/name
ReadItemNamePolicy == [exclude_unset |-> FALSE, include |-> {"name", "description"}]

\* 12-response_model: GET /items/{item_id}/public
ReadItemPublicDataPolicy == [exclude_unset |-> FALSE, exclude |-> {"tax"}]

\* The policy declared for a path operation; include-all without one.
Policy(ep) ==
    CASE ep = "rm_read_item" -> ReadItemPolicy
      [] ep = "rm_read_item_name" -> ReadItemNamePolicy
      [] ep = "rm_read_item_public_data" -> ReadItemPublicDataPolicy
      [] OTHER -> [exclude_unset |-> FALSE]

\* A value converted to the declared type of its field: an int given for a
\* float becomes that float.
ToDeclared(f, v) == IF f.type = "float" /\ v.k = "int" THEN FloatVal(10 * v.v) ELSE v

\* shape(responseShape, value, policy): the fields of the declared shape,
\* from the value or their defaults, filtered by the policy; a field was
\* explicitly provided when the value carries it.
Shape(model, policy, value) ==
    LET fields == ModelFields(model)
        declared == SeqNames(fields)
        provided == DOMAIN value \cap declared
        kept == {n \in declared :
                    /\ policy.exclude_unset => n \in provided
                    /\ "include" \in DOMAIN policy => n \in policy.include
                    /\ "exclude" \in DOMAIN policy => n \notin policy.exclude}
    IN  [n \in kept |->
            IF n \in provided THEN ToDeclared(ByName(fields, n), value[n])
            ELSE ByName(fields, n).default]

\* The response body of a path operation for the value its function returned.
Shaped(ep, value) ==
    IF ResponseModel(ep) = "none" THEN value
    ELSE Shape(ResponseModel(ep), Policy(ep), value)

(***************************************************************************)
(* Dependencies (resolver nodes).  A path operation declares the nodes its *)
(* function depends on, a node declares the nodes it depends on.           *)
(***************************************************************************)
\* The path operations whose dependency graphs are modelled.
\*   sub        17-dependencies  GET /items/sub/
\*   items17    17-dependencies  GET /items/ (dependencies in the decorator)
\*   users_me   18-security      GET /users/me/
\*   items_app  app package      GET /items/
\*   chain      17-dependencies  dependency_a / _b / _c (dependencies with yield)
\*   db         17-dependencies  get_db (dependency with yield)
\*   diamond    two nodes depending on one shared node
PlainOps == {"sub", "items17", "users_me", "items_app", "diamond"}

YieldOps == {"chain", "db"}

AllOps == PlainOps \cup YieldOps

\* The path operations the interleavings of SpecDeps are explored for.
SharingOps == {"sub", "users_me", "diamond"}

\* The further path operations served behind the route lookup.
\*   items17_commons  17-dependencies  GET /items/ (commons), declared first
\*   users17          17-dependencies  GET /users/
\*   items17_class    17-dependencies  GET /items/class/
\*   root, read_users, read_user_me, read_user, read_item, update_item
\*                    app package      /, /users/..., /items/{item_id}
\*   login            18-security      POST /token
\*   users_me_items   18-security      GET /users/me/items/
ServedOps ==
    {"items17_commons", "users17", "items17_class",
     "root", "read_users", "read_user_me", "read_user", "read_item", "update_item",
     "login", "users_me_items"}

\* The app package with include_router(items.router) applying the router's
\* own dependency alone, without the dependency of the application.
DepsOfServedRouterAlone(n) ==
    CASE n \in {"read_items_commons", "read_users17"} -> <<"common_parameters">>
      [] n = "read_items_class" -> <<"CommonQueryParams">>
      [] n \in {"app_root", "app_read_users", "app_read_user_me", "app_read_user"} ->
            <<"get_query_token">>
      [] n \in {"app_read_item", "app_update_item"} -> <<"get_token_header">>
      [] n = "login_for_access_token" -> <<"OAuth2PasswordRequestForm">>
      [] n = "read_own_items" -> <<"get_current_active_user">>
      [] OTHER -> << >>

\* The declared dependencies of the functions of the further path
\* operations: those of the application (FastAPI(dependencies=...)), then
\* those of the router, then those of the function's parameters.
DepsOfServed(n) ==
    CASE n \in {"read_items_commons", "read_users17"} -> <<"common_parameters">>
      [] n = "read_items_class" -> <<"CommonQueryParams">>
      [] n \in {"app_root", "app_read_users", "app_read_user_me", "app_read_user"} ->
            <<"get_query_token">>
      [] n \in {"app_read_item", "app_update_item"} ->
            <<"get_query_token", "get_token_header">>
      [] n = "login_for_access_token" -> <<"OAuth2PasswordRequestForm">>
      [] n = "read_own_items" -> <<"get_current_active_user">>
      [] OTHER -> << >>

\* The declarations with read_query depending on query_extractor itself
\* instead of query_or_cookie_extractor.
DepsOfWrongDepends(n) ==
    CASE n = "read_query" -> <<"query_extractor">>
      [] n = "query_or_cookie_extractor" -> <<"query_extractor">>
      [] n = "read_items" -> <<"verify_token", "verify_key">>
      [] n = "read_users_me" -> <<"get_current_active_user">>
      [] n = "get_current_active_user" -> <<"get_current_user">>
      [] n = "get_current_user" -> <<"oauth2_scheme">>
      [] n = "app_read_items" -> <<"get_query_token", "get_token_header">>
      [] n = "chain_function" -> <<"dependency_c">>
      [] n = "dependency_c" -> <<"dependency_b">>
      [] n = "dependency_b" -> <<"dependency_a">>
      [] n = "db_function" -> <<"get_db">>
      [] n = "diamond_function" -> <<"left", "right">>
      [] n = "left" -> <<"shared">>
      [] n = "right" -> <<"shared">>
      [] OTHER -> DepsOfServed(n)

\* The declared dependencies of a node or path operation function, in the
\* order of declaration.
DepsOf(n) ==
    CASE n = "read_query" -> <<"query_or_cookie_extractor">>
      [] n = "query_or_cookie_extractor" -> <<"query_extractor">>
      [] n = "read_items" -> <<"verify_token", "verify_key">>
      [] n = "read_users_me" -> <<"get_current_active_user">>
      [] n = "get_current_active_user" -> <<"get_current_user">>
      [] n = "get_current_user" -> <<"oauth2_scheme">>
      [] n = "app_read_items" -> <<"get_query_token", "get_token_header">>
      [] n = "chain_function" -> <<"dependency_c">>
      [] n = "dependency_c" -> <<"dependency_b">>
      [] n = "dependency_b" -> <<"dependency_a">>
      [] n = "db_function" -> <<"get_db">>
      [] n = "diamond_function" -> <<"left", "right">>
      [] n = "left" -> <<"shared">>
      [] n = "right" -> <<"shared">>
      [] OTHER -> DepsOfServed(n)

\* The path operation function of a path operation.
Function(op) ==
    CASE op = "sub" -> "read_query"
      [] op = "items17" -> "read_items"
      [] op = "users_me" -> "read_users_me"
      [] op = "items_app" -> "app_read_items"
      [] op = "chain" -> "chain_function"
      [] op = "db" -> "db_function"
      [] op = "diamond" -> "diamond_function"
      [] op = "items17_commons" -> "read_items_commons"
      [] op = "users17" -> "read_users17"
      [] op = "items17_class" -> "read_items_class"
      [] op = "root" -> "app_root"
      [] op = "read_users" -> "app_read_users"
      [] op = "read_user_me" -> "app_read_user_me"
      [] op = "read_user" -> "app_read_user"
      [] op = "read_item" -> "app_read_item"
      [] op = "update_item" -> "app_update_item"
      [] op = "login" -> "login_for_access_token"
      [] op = "users_me_items" -> "read_own_items"

\* dependency_b written with return instead of yield.
YieldsNotB(n) == n \in {"dependency_a", "dependency_c", "get_db"}

\* Nodes written with yield: setup, then the exit step after the request.
Yields(n) == n \in {"dependency_a", "dependency_b", "dependency_c", "get_db"}

\* get_db with db.close() after the yield, outside a finally clause.
InFinallyNotDb(n) == n \in {"dependency_a", "dependency_b", "dependency_c"}

\* Nodes whose exit step stands in a finally clause around the yield: it runs
\* also when the request ends with an exception or is cancelled.
InFinally(n) == n \in {"dependency_a", "dependency_b", "dependency_c", "get_db"}

\* Dependencies listed in a decorator, an APIRouter or the application: they
\* are solved, their value is not passed to the function.
ValueDropped(n) ==
    n \in {"verify_token", "verify_key", "get_query_token", "get_token_header"}

RECURSIVE PostOrder(_)
\* The nodes below n and n itself, each after the nodes it depends on, one
\* entry per place a node is depended on.
PostOrder(n) ==
    ConcatAll([i \in 1..Len(DepsOf(n)) |-> PostOrder(DepsOf(n)[i])]) \o <<n>>

\* The order in which the nodes of a path operation are solved.
Plan(op) ==
    LET f == Function(op)
    IN  ConcatAll([i \in 1..Len(DepsOf(f)) |-> PostOrder(DepsOf(f)[i])])

Nodes == UNION {Range(Plan(op)) : op \in AllOps \cup ServedOps}

(***************************************************************************)
(* What a request carries for the nodes of each path operation.            *)
(***************************************************************************)
HeaderChoices(good) == {"missing", good, "wrong"}

\* No bearer token: the request carries none, the client holds none.
NoToken == [k |-> "none", signed |-> FALSE, sub |-> "none"]

\* A bearer token: none, or a JWT with or without a valid signature whose
\* payload names johndoe, an unknown user, or carries no sub.
TokenChoices ==
    {[k |-> "none", signed |-> FALSE, sub |-> "none"]}
        \cup [k : {"jwt"}, signed : BOOLEAN, sub : {"johndoe", "alice", "none"}]

Inputs(op) ==
    CASE op = "sub" ->
            [q : {AbsentVal, StrVal(<< >>), StrVal(<<"a">>)},
             last_query : {AbsentVal, StrVal(<<"3">>)}]
      [] op = "items17" ->
            [x_token : HeaderChoices("fake-super-secret-token"),
             x_key : HeaderChoices("fake-super-secret-key")]
      [] op = "users_me" -> [token : TokenChoices]
      [] op = "items_app" ->
            [token : HeaderChoices("jessica"),
             x_token : HeaderChoices("fake-super-secret-token")]
      [] OTHER -> {[none |-> TRUE]}

\* pwd_context.hash(password): the bcrypt hash of a password.
get_password_hash(password) == [bcrypt |-> password]

\* 18-security: fake_users_db.  The hashed_password stored for johndoe is
\* the bcrypt hash of "secret".
FakeUsersDb ==
    [u \in {"johndoe"} |->
        [username |-> "johndoe", full_name |-> "John Doe",
         email |-> "johndoe@example.com",
         hashed_password |-> get_password_hash("secret"),
         disabled |-> FALSE]]

\* pwd_context.verify(plain_password, hashed_password)
verify_password(plain_password, hashed_password) ==
    hashed_password = get_password_hash(plain_password)

NoUser == [found |-> FALSE]

\* get_user: UserInDB(**db[username]), None for a name that is no key.
get_user(db, username) ==
    IF username \in DOMAIN db THEN [found |-> TRUE, user |-> db[username]]
    ELSE NoUser

\* authenticate_user without the call of verify_password.
authenticate_user_any_password(fake_db, username, password) ==
    get_user(fake_db, username)

\* authenticate_user: the user, or False.
authenticate_user(fake_db, username, password) ==
    LET user == get_user(fake_db, username)
    IN  IF ~user.found THEN NoUser
        ELSE IF ~verify_password(password, user.user.hashed_password) THEN NoUser
        ELSE user

ACCESS_TOKEN_EXPIRE_MINUTES == 30

\* timedelta(minutes=15), used when no expires_delta is given.
DefaultExpireMinutes == 15

Timedelta(minutes) == [k |-> "timedelta", minutes |-> minutes]

\* jwt.encode(claims, SECRET_KEY): a token signed with the server's key.
Encode(claims) == With([k |-> "jwt", signed |-> TRUE], claims)

\* create_access_token with `expire = datetime.utcnow() + timedelta(minutes=15)`
\* in both branches.
create_access_token_default(data, expires_delta, utcnow) ==
    Encode(With(data, [exp |-> utcnow + DefaultExpireMinutes]))

\* create_access_token; utcnow is what datetime.utcnow() returns, in minutes.
create_access_token(data, expires_delta, utcnow) ==
    LET expire == IF expires_delta.k = "timedelta" /\ expires_delta.minutes # 0
                  THEN utcnow + expires_delta.minutes
                  ELSE utcnow + DefaultExpireMinutes
    IN  Encode(With(data, [exp |-> expire]))

\* jwt.get_unverified_claims(token) in place of jwt.decode: nothing is
\* verified, no JWTError is raised.
DecodeUnverified(token, in) == FALSE

\* jwt.decode(token, SECRET_KEY) raises JWTError: the signature is not the
\* server's, or the token carries an expiry that has passed.
DecodeFails(token, in) ==
    \/ ~token.signed
    \/ ("exp" \in DOMAIN token /\ token.exp < in.now)


Ok(v) == [ok |-> TRUE, status |-> 200, val |-> v]

Fail(status, detail) ==
    [ok |-> FALSE, status |-> status, val |-> [k |-> "detail", v |-> detail]]

\* The errors of a node's own required parameters (a missing header or
\* query parameter).
ParamErrors(n, in) ==
    CASE n \in {"verify_token", "get_token_header"} /\ in.x_token = "missing" ->
            <<Err(<<"header", "x-token">>, "MISSING")>>
      [] n = "verify_key" /\ in.x_key = "missing" ->
            <<Err(<<"header", "x-key">>, "MISSING")>>
      [] n = "get_query_token" /\ in.token = "missing" ->
            <<Err(<<"query", "token">>, "MISSING")>>
      [] n = "OAuth2PasswordRequestForm" ->
            (IF in.form.username = "missing"
             THEN <<Err(<<"body", "username">>, "MISSING")>> ELSE << >>)
            \o (IF in.form.password = "missing"
                THEN <<Err(<<"body", "password">>, "MISSING")>> ELSE << >>)
      [] OTHER -> << >>

\* The nodes with verify_token building its HTTPException without raising it.
NodeCallNoRaise(n, in, args, serial) ==
    CASE n = "query_extractor" -> Ok(in.q)
      [] n = "query_or_cookie_extractor" ->
            IF ~Truthy(args[1]) THEN Ok(in.last_query) ELSE Ok(args[1])
      [] n = "verify_token" -> Ok(AbsentVal)
      [] n = "verify_key" ->
            IF in.x_key # "fake-super-secret-key"
            THEN Fail(400, "X-Key header invalid") ELSE Ok(StrVal(<<in.x_key>>))
      [] n = "get_token_header" ->
            IF in.x_token # "fake-super-secret-token"
            THEN Fail(400, "X-Token header invalid") ELSE Ok(AbsentVal)
      [] n = "get_query_token" ->
            IF in.token # "jessica"
            THEN Fail(400, "No Jessica token provided") ELSE Ok(AbsentVal)
      [] n = "oauth2_scheme" ->
            IF in.token.k = "none" THEN Fail(401, "Not authenticated")
            ELSE Ok([k |-> "token", v |-> in.token])
      [] n = "get_current_user" ->
            LET token == args[1].v
            IN  IF DecodeFails(token, in) \/ token.sub = "none"
                   \/ token.sub \notin DOMAIN FakeUsersDb
                THEN Fail(401, "Could not validate credentials")
                ELSE Ok([k |-> "user", v |-> FakeUsersDb[token.sub]])
      [] n = "get_current_active_user" ->
            IF args[1].v.disabled THEN Fail(400, "Inactive user") ELSE Ok(args[1])
      [] n \in {"common_parameters", "CommonQueryParams"} ->
            Ok([q |-> in.q, skip |-> IntVal(0), limit |-> IntVal(100)])
      [] n = "OAuth2PasswordRequestForm" -> Ok([k |-> "form", v |-> in.form])
      [] OTHER -> Ok([k |-> "made", v |-> <<n, serial>>])

\* The call of node n of a request carrying `in`, on the values `args` of
\* its dependencies; `serial` numbers the calls of the request.
NodeCall(n, in, args, serial) ==
    CASE n = "query_extractor" -> Ok(in.q)
      [] n = "query_or_cookie_extractor" ->
            IF ~Truthy(args[1]) THEN Ok(in.last_query) ELSE Ok(args[1])
      [] n = "verify_token" ->
            IF in.x_token # "fake-super-secret-token"
            THEN Fail(400, "X-Token header invalid") ELSE Ok(AbsentVal)
      [] n = "verify_key" ->
            IF in.x_key # "fake-super-secret-key"
            THEN Fail(400, "X-Key header invalid") ELSE Ok(StrVal(<<in.x_key>>))
      [] n = "get_token_header" ->
            IF in.x_token # "fake-super-secret-token"
            THEN Fail(400, "X-Token header invalid") ELSE Ok(AbsentVal)
      [] n = "get_query_token" ->
            IF in.token # "jessica"
            THEN Fail(400, "No Jessica token provided") ELSE Ok(AbsentVal)
      [] n = "oauth2_scheme" ->
            IF in.token.k = "none" THEN Fail(401, "Not authenticated")
            ELSE Ok([k |-> "token", v |-> in.token])
      [] n = "get_current_user" ->
            LET token == args[1].v
            IN  IF DecodeFails(token, in) \/ token.sub = "none"
                   \/ token.sub \notin DOMAIN FakeUsersDb
                THEN Fail(401, "Could not validate credentials")
                ELSE Ok([k |-> "user", v |-> FakeUsersDb[token.sub]])
      [] n = "get_current_active_user" ->
            IF args[1].v.disabled THEN Fail(400, "Inactive user") ELSE Ok(args[1])
      [] n \in {"common_parameters", "CommonQueryParams"} ->
            Ok([q |-> in.q, skip |-> IntVal(0), limit |-> IntVal(100)])
      [] n = "OAuth2PasswordRequestForm" -> Ok([k |-> "form", v |-> in.form])
      [] OTHER -> Ok([k |-> "made", v |-> <<n, serial>>])

\* app/routers/items: fake_items_db
FakeItemsDb ==
    [id \in {"plumbus", "gun"} |->
        [name |-> IF id = "plumbus" THEN "Plumbus" ELSE "Portal Gun"]]

\* The path operation function on the values of its dependencies.
FunctionCall(op, in, args) ==
    CASE op = "sub" -> Ok([q_or_cookie |-> args[1]])
      [] op = "items17" -> Ok(StrVal(<<"Foo", "Bar">>))
      [] op = "users_me" -> Ok(args[1])
      [] op = "items_app" -> Ok(StrVal(<<"plumbus", "gun">>))
      [] op \in {"items17_commons", "users17"} -> Ok(args[1])
      [] op = "items17_class" ->
            Ok(WithQ([n \in {"items"} |-> StrVal(<<"Foo", "Bar", "Baz">>)], args[1].q))
      [] op = "root" -> Ok([message |-> "Hello Bigger Applications!"])
      [] op = "read_users" -> Ok(StrVal(<<"Rick", "Morty">>))
      [] op = "read_user_me" -> Ok([username |-> "fakecurrentuser"])
      [] op = "read_user" -> Ok([username |-> in.segs[2]])
      [] op = "read_item" ->
            IF in.segs[2] \notin DOMAIN FakeItemsDb THEN Fail(404, "Item not found")
            ELSE Ok([name |-> FakeItemsDb[in.segs[2]].name, item_id |-> in.segs[2]])
      [] op = "update_item" ->
            IF in.segs[2] # "plumbus"
            THEN Fail(403, "You can only update the item: plumbus")
            ELSE Ok([item_id |-> in.segs[2], name |-> "The great Plumbus"])
      [] op = "login" ->
            LET form_data == args[1].v
                user == authenticate_user(FakeUsersDb, form_data.username,
                                          form_data.password)
            IN  IF ~user.found THEN Fail(401, "Incorrect username or password")
                ELSE Ok([access_token |->
                            create_access_token([sub |-> user.user.username],
                                                Timedelta(ACCESS_TOKEN_EXPIRE_MINUTES),
                                                in.now),
                         token_type |-> "bearer"])
      [] op = "users_me_items" ->
            Ok([item_id |-> "Foo", owner |-> args[1].v.username])
      [] OTHER -> Ok([k |-> "used", v |-> args])

(***************************************************************************)
(* 16-body_updates: the items dictionary and its path operations.          *)
(***************************************************************************)
\* `items = {...}` as the module sets it when it is loaded.  A stored item
\* is a function from the keys it has to their values.
ItemsAtStartup ==
    [id \in {"foo", "bar", "baz"} |->
        CASE id = "foo" ->
                [n \in {"name", "price"} |->
                    IF n = "name" THEN StrVal(<<"Foo">>) ELSE FloatVal(502)]
          [] id = "bar" ->
                [n \in {"name", "description", "price", "tax"} |->
                    CASE n = "name" -> StrVal(<<"Bar">>)
                      [] n = "description" -> StrVal(<<"The bartenders">>)
                      [] n = "price" -> IntVal(62)
                      [] n = "tax" -> FloatVal(202)]
          [] id = "baz" ->
                [n \in {"name", "description", "price", "tax", "tags"} |->
                    CASE n = "name" -> StrVal(<<"Baz">>)
                      [] n = "description" -> AbsentVal
                      [] n = "price" -> FloatVal(502)
                      [] n = "tax" -> FloatVal(105)
                      [] n = "tags" -> ListVal(<< >>)]]

\* The item ids the requests name: a stored one and one that is not stored.
StoreIds == {"foo", "new"}

\* The JSON bodies tried: objects that set none, one or both of name and
\* price, the price a number or a text that is no number.
StoreBodies ==
    {RawObject(m) : m \in
        {m \in UNION {[S -> {RawText(<<"3">>), RawText(<<"a">>)}] :
                        S \in SUBSET {"name", "price"}} :
            "name" \in DOMAIN m => m["name"] = RawText(<<"a">>)}}

StoreRequests ==
    [method : {"GET"}, item_id : StoreIds, body : {RawNone}]
        \cup [method : {"PUT", "PATCH"}, item_id : StoreIds, body : StoreBodies]

\* The body parameter `item: Item` bound from the request body.
BindItem(body) == BindField(BodyModel("item", "Item16", FALSE), body, <<"body">>)

\* A stored value read into a field of Item (an int is accepted as float).
AsField(f, v) == IF f.type = "float" /\ v.k = "int" THEN FloatVal(10 * v.v) ELSE v

\* Item(**data): the keys given, the declared defaults for the others.
ItemModel(data) ==
    [n \in SeqNames(Item16Fields) |->
        IF n \in DOMAIN data THEN AsField(ByName(Item16Fields, n), data[n])
        ELSE ByName(Item16Fields, n).default]

Stored(store, resp) == [items |-> store, resp |-> resp]

KeyError == Response("error", 500, "text", [detail |-> "Internal Server Error"])

\* read_item written as `return items.setdefault(item_id, {})`.
ReadItemSetDefault(store, item_id) ==
    LET with == IF item_id \in DOMAIN store THEN store
                ELSE [id \in DOMAIN store \cup {item_id} |->
                        IF id = item_id THEN << >> ELSE store[id]]
    IN  Stored(with, Response("return", 200, "json", ItemModel(with[item_id])))

\* GET /items/{item_id}: `return items[item_id]`, shaped by response_model.
read_item(store, item_id) ==
    IF item_id \notin DOMAIN store THEN Stored(store, KeyError)
    ELSE Stored(store, Response("return", 200, "json", ItemModel(store[item_id])))

\* PUT /items/put/{item_id}: the encoded item replaces what is stored.
update_item_put(store, item_id, item) ==
    LET update_item_encoded == item.fields
    IN  Stored([id \in DOMAIN store \cup {item_id} |->
                    IF id = item_id THEN update_item_encoded ELSE store[id]],
               Response("return", 200, "json", ItemModel(update_item_encoded)))

\* update_item written with `item.dict()`: every field of the body's model,
\* the defaults of those the request did not set included, is copied over.
update_item_patch_dict(store, item_id, item, fields_set) ==
    IF item_id \notin DOMAIN store THEN Stored(store, KeyError)
    ELSE LET updated_item == [n \in SeqNames(Item16Fields) |-> item.fields[n]]
         IN  Stored([store EXCEPT ![item_id] = updated_item],
                    Response("return", 200, "json", updated_item))

\* update_item written with `items.get(item_id, {})`: an item that is not
\* stored is patched as an empty one.
update_item_patch_get(store, item_id, item, fields_set) ==
    LET stored_item_model == ItemModel(IF item_id \in DOMAIN store
                                       THEN store[item_id] ELSE << >>)
        updated_item == [n \in DOMAIN stored_item_model |->
                            IF n \in fields_set THEN item.fields[n]
                            ELSE stored_item_model[n]]
    IN  Stored([id \in DOMAIN store \cup {item_id} |->
                    IF id = item_id THEN updated_item ELSE store[id]],
               Response("return", 200, "json", updated_item))

\* PATCH /items/patch/{item_id}: the fields the request set are copied over
\* the stored item (item.dict(exclude_unset=True)), the result is stored.
update_item_patch(store, item_id, item, fields_set) ==
    IF item_id \notin DOMAIN store THEN Stored(store, KeyError)
    ELSE LET stored_item_model == ItemModel(store[item_id])
             updated_item == [n \in DOMAIN stored_item_model |->
                                IF n \in fields_set THEN item.fields[n]
                                ELSE stored_item_model[n]]
         IN  Stored([store EXCEPT ![item_id] = updated_item],
                    Response("return", 200, "json", updated_item))

(***************************************************************************)
(* Routing.  An application holds its path operations in the order of      *)
(* their decorators; a request goes to the first whose path and method     *)
(* match.  A path is the sequence of its segments, "/users/" being         *)
(* <<"users", "">>.                                                        *)
(***************************************************************************)
Lit(seg) == [k |-> "lit", s |-> seg]

\* {name}: one segment that is not empty.
Param(name) == [k |-> "param", s |-> name]

\* {name:path}: the rest of the path.
PathParam(name) == [k |-> "path", s |-> name]

Route(method, pattern, endpoint) ==
    [method |-> method, pattern |-> pattern, endpoint |-> endpoint]

\* 2-path_parameters with /users/{user_id} declared before /users/me.
Routes2PathParametersSwapped ==
    << Route("GET", <<Lit("item"), Param("item_id")>>, "read_item"),
       Route("GET", <<Lit("users"), Param("user_id")>>, "read_user"),
       Route("GET", <<Lit("users"), Lit("me")>>, "read_user_me"),
       Route("GET", <<Lit("models"), Param("model_name")>>, "get_model"),
       Route("GET", <<Lit("files"), PathParam("file_path")>>, "read_file") >>

\* 2-path_parameters: the path operations in the order of their decorators.
Routes2PathParameters ==
    << Route("GET", <<Lit("item"), Param("item_id")>>, "read_item"),
       Route("GET", <<Lit("users"), Lit("me")>>, "read_user_me"),
       Route("GET", <<Lit("users"), Param("user_id")>>, "read_user"),
       Route("GET", <<Lit("models"), Param("model_name")>>, "get_model"),
       Route("GET", <<Lit("files"), PathParam("file_path")>>, "read_file") >>

\* app/routers/users: the path operations of the router.
RoutesUsers ==
    << Route("GET", <<Lit("users"), Lit("")>>, "read_users"),
       Route("GET", <<Lit("users"), Lit("me")>>, "read_user_me"),
       Route("GET", <<Lit("users"), Param("username")>>, "read_user") >>

\* app/routers/items: the path operations of the router, under /items.
RoutesItems ==
    << Route("GET", <<Lit("items"), Lit("")>>, "read_items"),
       Route("GET", <<Lit("items"), Param("item_id")>>, "read_item"),
       Route("PUT", <<Lit("items"), Param("item_id")>>, "update_item") >>

\* app/main: the routers in the order they are included (those of the admin
\* router all lie under /admin), then the path operation of the app itself.
RoutesApp == RoutesUsers \o RoutesItems \o << Route("GET", <<Lit("")>>, "root") >>

\* 17-dependencies: the path operations in the order of their decorators,
\* each under the name of its path operation above.  GET /items/ is declared
\* twice: first with the function that takes commons, last with verify_token
\* and verify_key in the decorator.
Routes17Dependencies ==
    << Route("GET", <<Lit("items"), Lit("")>>, "items17_commons"),
       Route("GET", <<Lit("users"), Lit("")>>, "users17"),
       Route("GET", <<Lit("items"), Lit("class"), Lit("")>>, "items17_class"),
       Route("GET", <<Lit("items"), Lit("sub"), Lit("")>>, "sub"),
       Route("GET", <<Lit("items"), Lit("")>>, "items17") >>

\* 18-security: the path operations in the order of their decorators.
Routes18Security ==
    << Route("POST", <<Lit("token")>>, "login"),
       Route("GET", <<Lit("users"), Lit("me"), Lit("")>>, "users_me"),
       Route("GET", <<Lit("users"), Lit("me"), Lit("items"), Lit("")>>,
             "users_me_items") >>

RoutedApps == {"2-path_parameters", "app"}

Routes(app) ==
    CASE app = "app" -> RoutesApp
      [] app = "17-dependencies" -> Routes17Dependencies
      [] app = "18-security" -> Routes18Security
      [] OTHER -> Routes2PathParameters

\* The path operation behind a route of the application.
OpOf(app, endpoint) ==
    IF app = "app" /\ endpoint = "read_items" THEN "items_app" ELSE endpoint

RECURSIVE PathMatches(_, _)
\* The path segments segs match the pattern.
PathMatches(pattern, segs) ==
    IF pattern = << >> THEN segs = << >>
    ELSE IF segs = << >> THEN FALSE
    ELSE IF Head(pattern).k = "path" THEN TRUE
    ELSE IF Head(pattern).k = "lit"
    THEN Head(segs) = Head(pattern).s /\ PathMatches(Tail(pattern), Tail(segs))
    ELSE Head(segs) # "" /\ PathMatches(Tail(pattern), Tail(segs))

NotFound == [status |-> 404, endpoint |-> "none"]

\* The route lookup: the first path operation whose path and method match;
\* 405 when only paths match, 404 when nothing does.
Select(routes, method, segs) ==
    LET full == {i \in 1..Len(routes) :
                    PathMatches(routes[i].pattern, segs) /\ routes[i].method = method}
        partial == {i \in 1..Len(routes) : PathMatches(routes[i].pattern, segs)}
    IN  IF full # {}
        THEN [status |-> 200,
              endpoint |-> routes[CHOOSE i \in full : \A j \in full : i <= j].endpoint]
        ELSE IF partial # {} THEN [status |-> 405, endpoint |-> "none"]
        ELSE NotFound

MaxSegments == 3

\* The segments the model builds paths from.
Segments == {"users", "me", "Me", "rick", "items", ""}

Paths == UNION {[1..n -> Segments] : n \in 1..MaxSegments}

NoRouteRequest == [app |-> "none", method |-> "none", segs |-> << >>]

\* The requests served by 17-dependencies and by the app package: method,
\* path, and the headers and query parameters the dependencies read.
ServedRequests(app) ==
    IF app = "17-dependencies"
    THEN [app : {app}, method : {"GET", "POST"},
          segs : {<<"items", "">>, <<"items", "sub", "">>, <<"items", "class", "">>,
                  <<"users", "">>, <<"other">>},
          in : [x_token : HeaderChoices("fake-super-secret-token"),
                x_key : HeaderChoices("fake-super-secret-key"),
                q : {AbsentVal, StrVal(<<"a">>)},
                last_query : {AbsentVal, StrVal(<<"3">>)}]]
    ELSE [app : {app}, method : {"GET", "PUT"},
          segs : {<<"">>, <<"users", "">>, <<"users", "me">>, <<"users", "rick">>,
                  <<"items", "">>, <<"items", "plumbus">>, <<"items", "rick">>},
          in : [token : HeaderChoices("jessica"),
                x_token : HeaderChoices("fake-super-secret-token")]]

MaxClock == 32

NoForm == [username |-> "missing", password |-> "missing"]

\* The requests served by 18-security when the server's clock shows `at` and
\* the client holds `held`: a sign-in with a username and a password, or a
\* protected path with a bearer token, the one held or one not issued here.
SecurityRequests(at, held) ==
    [app : {"18-security"}, method : {"POST"}, segs : {<<"token">>},
     in : [token : {NoToken}, now : {at},
           form : [username : {"johndoe", "alice", "missing"},
                   password : {"secret", "wrong", "missing"}]]]
    \cup
    [app : {"18-security"}, method : {"GET"},
     segs : {<<"users", "me", "">>, <<"users", "me", "items", "">>, <<"token">>},
     in : [token : TokenChoices \cup {held}, now : {at}, form : {NoForm}]]

NoSelection == [status |-> 0, endpoint |-> "none"]

(***************************************************************************)
(* State.                                                                  *)
(***************************************************************************)
NumRequests == 2

Reqs == 1..NumRequests

VARIABLES
    bphase,     \* "idle" | "received" | "bound" | "responded"
    breq,       \* the RawRequest being handled
    bout,       \* the binder's outcome: [errors, values]
    bcall,      \* whether the path operation function ran, and on what
    bresp,      \* the response
    \* per concurrently handled request r \in Reqs:
    dreq,       \* the path operation requested and what the request carries
    dstatus,    \* "idle" | "resolving" | "ready" | "unwinding" | "done"
    dpc,        \* the place in the plan that is solved next
    cache,      \* the request's dependency cache: node -> solved value
    calls,      \* the calls made so far, in order: [node, args]
    verrs,      \* the validation errors of the nodes' parameters
    stack,      \* the nodes whose exit step is owed, in order of acquisition
    released,   \* the nodes whose exit step ran, in that order
    closeOk,    \* every exit step found the values it closes over available
    pending,    \* the failure waiting to be surfaced
    dresp,      \* the response sent
    \* 16-body_updates:
    items,      \* the module's items dictionary, shared by all requests
    sphase,     \* per request: "idle" | "received" | "bound" | "suspended" | "responded"
    sreq,       \* per request: method, item id and body
    sbound,     \* per request: the bound item and the fields the body set
    sresp,      \* per request: the response
    \* routing:
    rphase,     \* "idle" | "received" | "matched"
    rreq,       \* the application, method and path segments of the request
    rsel,       \* the outcome of the route lookup
    \* 18-security:
    now,        \* the server's clock, in minutes
    wallet      \* the access token the client holds

bindVars == <<bphase, breq, bout, bcall, bresp>>

depVars == <<dreq, dstatus, dpc, cache, calls, verrs, stack, released, closeOk,
             pending, dresp>>

storeVars == <<items, sphase, sreq, sbound, sresp>>

routeVars == <<rphase, rreq, rsel>>

clockVars == <<now, wallet>>

vars == <<bindVars, depVars, storeVars, routeVars, clockVars>>

NoRequest == [ep |-> "none"]

NoOutcome == [errors |-> << >>, values |-> << >>]

NotCalled == [ran |-> FALSE, args |-> << >>]

NoResponse == Response("none", 0, "none", << >>)

BindInit ==
    /\ bphase = "idle"
    /\ breq = NoRequest
    /\ bout = NoOutcome
    /\ bcall = NotCalled
    /\ bresp = NoResponse

NoOp == [op |-> "none", in |-> [none |-> TRUE]]

Unset == [state |-> "unset", v |-> AbsentVal]

Solved(v) == [state |-> "set", v |-> v]

Skipped == [state |-> "skipped", v |-> AbsentVal]

EmptyCache == [n \in Nodes |-> Unset]

NoFailure == [k |-> "none", status |-> 0, detail |-> << >>]

Failure(k, status, detail) == [k |-> k, status |-> status, detail |-> detail]

DepInit ==
    /\ dreq = [r \in Reqs |-> NoOp]
    /\ dstatus = [r \in Reqs |-> "idle"]
    /\ dpc = [r \in Reqs |-> 1]
    /\ cache = [r \in Reqs |-> EmptyCache]
    /\ calls = [r \in Reqs |-> << >>]
    /\ verrs = [r \in Reqs |-> << >>]
    /\ stack = [r \in Reqs |-> << >>]
    /\ released = [r \in Reqs |-> << >>]
    /\ closeOk = [r \in Reqs |-> TRUE]
    /\ pending = [r \in Reqs |-> NoFailure]
    /\ dresp = [r \in Reqs |-> NoResponse]

\* A request arrives for one of the path operations.
Receive ==
    /\ bphase = "idle"
    /\ \E ep \in Endpoints : \E rq \in Requests(ep) : breq' = rq
    /\ bphase' = "received"
    /\ UNCHANGED <<bout, bcall, bresp, depVars, storeVars, routeVars, clockVars>>

\* A request arrives for one of the further path operations.
ReceiveMore ==
    /\ bphase = "idle"
    /\ \E ep \in MoreEndpoints : \E rq \in MoreRequests(ep) : breq' = rq
    /\ bphase' = "received"
    /\ UNCHANGED <<bout, bcall, bresp, depVars, storeVars, routeVars, clockVars>>

\* A request arrives for one of the path operations that look an item up.
ReceiveLookup ==
    /\ bphase = "idle"
    /\ \E ep \in LookupEndpoints : \E rq \in Requests(ep) : breq' = rq
    /\ bphase' = "received"
    /\ UNCHANGED <<bout, bcall, bresp, depVars, storeVars, routeVars, clockVars>>

\* The request is bound against the declared parameters.
BindStep ==
    /\ bphase = "received"
    /\ bout' = Bind(breq)
    /\ bphase' = "bound"
    /\ UNCHANGED <<breq, bcall, bresp, depVars, storeVars, routeVars, clockVars>>

\* With errors a RequestValidationError goes to the exception handler;
\* otherwise the path operation function runs on the bound values.
Dispatch ==
    /\ bphase = "bound"
    /\ IF bout.errors # << >>
       THEN /\ bcall' = NotCalled
            /\ bresp' = OnValidationError(
                            HandlerFor(AppOf(breq.ep), "RequestValidationError"),
                            bout.errors, breq)
       ELSE LET r == Handler(breq.ep, bout.values)
            IN  /\ bcall' = [ran |-> TRUE, args |-> bout.values]
                /\ bresp' = IF r.raised
                            THEN WithHeaders(
                                    OnHTTPException(
                                        HandlerFor(AppOf(breq.ep), "StarletteHTTPException"),
                                        r.status, r.content),
                                    HeadersSent(
                                        HandlerFor(AppOf(breq.ep), "StarletteHTTPException"),
                                        r))
                            ELSE IF r.status = 500
                            THEN Response("error", 500, "text",
                                          [detail |-> "Internal Server Error"])
                            ELSE Response("return", r.status, "json",
                                          Shaped(breq.ep, r.content))
    /\ bphase' = "responded"
    /\ UNCHANGED <<breq, bout, depVars, storeVars, routeVars, clockVars>>

\* The response is sent; everything created for the request is discarded.
Discard ==
    /\ bphase = "responded"
    /\ bphase' = "idle"
    /\ breq' = NoRequest
    /\ bout' = NoOutcome
    /\ bcall' = NotCalled
    /\ bresp' = NoResponse
    /\ UNCHANGED <<depVars, storeVars, routeVars, clockVars>>

(***************************************************************************)
(* Solving the dependencies of concurrently handled requests.              *)
(***************************************************************************)
\* One cache for all requests: a value solved for any request is found.
CacheLookupShared(r, n) ==
    IF \E r2 \in Reqs : cache[r2][n].state = "set"
    THEN cache[CHOOSE r2 \in Reqs : cache[r2][n].state = "set"][n]
    ELSE cache[r][n]

\* What request r's dependency cache holds for node n.
CacheLookup(r, n) == cache[r][n]

\* The node request r solves next.
NextNode(r) == Plan(dreq[r].op)[dpc[r]]

\* The values of the dependencies of n, as request r has solved them.
ArgsOf(r, n) == [i \in 1..Len(DepsOf(n)) |-> CacheLookup(r, DepsOf(n)[i]).v]

\* The values passed to the path operation function.
FunctionArgs(r) ==
    LET f == Function(dreq[r].op)
        kept == SelectSeq(DepsOf(f), LAMBDA d : ~ValueDropped(d))
    IN  [i \in 1..Len(kept) |-> CacheLookup(r, kept[i]).v]

Set(f, r, v) == [f EXCEPT ![r] = v]

\* After the node at dpc[r]: on to the next one; after the last one, the
\* function is ready to run unless a parameter of some node was invalid.
Advance(r, errs) ==
    IF dpc[r] < Len(Plan(dreq[r].op))
    THEN /\ dpc' = Set(dpc, r, dpc[r] + 1)
         /\ UNCHANGED <<dstatus, pending>>
    ELSE /\ UNCHANGED dpc
         /\ IF errs = << >>
            THEN dstatus' = Set(dstatus, r, "ready") /\ UNCHANGED pending
            ELSE /\ dstatus' = Set(dstatus, r, "unwinding")
                 /\ pending' = Set(pending, r, Failure("validation", 422, errs))

\* A request arrives for one of the path operations `ops`.
StartRequest(r, ops) ==
    /\ dstatus[r] = "idle"
    /\ \E op \in ops : \E in \in Inputs(op) :
          dreq' = Set(dreq, r, [op |-> op, in |-> in])
    /\ dstatus' = Set(dstatus, r, "resolving")
    /\ UNCHANGED <<dpc, cache, calls, verrs, stack, released, closeOk, pending,
                   dresp, bindVars, storeVars, routeVars, clockVars>>

\* The next node was solved before in this request: its value is reused.
ResolveCached(r) ==
    /\ dstatus[r] = "resolving"
    /\ CacheLookup(r, NextNode(r)).state # "unset"
    /\ cache' = Set(cache, r,
                    [cache[r] EXCEPT ![NextNode(r)] = CacheLookup(r, NextNode(r))])
    /\ Advance(r, verrs[r])
    /\ UNCHANGED <<dreq, calls, verrs, stack, released, closeOk, dresp, bindVars, storeVars, routeVars, clockVars>>

\* The node is not called: a parameter of it is invalid, or a node it
\* depends on was not called.
MustSkip(r, n) ==
    \/ ParamErrors(n, dreq[r].in) # << >>
    \/ \E i \in 1..Len(DepsOf(n)) : CacheLookup(r, DepsOf(n)[i]).state = "skipped"

ResolveSkipped(r) ==
    LET n == NextNode(r)
        errs == verrs[r] \o ParamErrors(n, dreq[r].in)
    IN  /\ dstatus[r] = "resolving"
        /\ CacheLookup(r, n).state = "unset"
        /\ MustSkip(r, n)
        /\ cache' = Set(cache, r, [cache[r] EXCEPT ![n] = Skipped])
        /\ verrs' = Set(verrs, r, errs)
        /\ Advance(r, errs)
        /\ UNCHANGED <<dreq, calls, stack, released, closeOk, dresp, bindVars, storeVars, routeVars, clockVars>>

\* The node is called on the values of its dependencies.  It returns (for a
\* node with yield: reaches its yield, and owes its exit step), or raises.
ResolveCall(r) ==
    LET n == NextNode(r)
        args == ArgsOf(r, n)
        res == NodeCall(n, dreq[r].in, args, Len(calls[r]) + 1)
    IN  /\ dstatus[r] = "resolving"
        /\ CacheLookup(r, n).state = "unset"
        /\ ~MustSkip(r, n)
        /\ calls' = Set(calls, r, Append(calls[r], [node |-> n, args |-> args]))
        /\ \E acquired \in (IF Yields(n) THEN BOOLEAN ELSE {TRUE}) :
              IF res.ok /\ acquired
              THEN /\ cache' = Set(cache, r, [cache[r] EXCEPT ![n] = Solved(res.val)])
                   /\ stack' = IF Yields(n) THEN Set(stack, r, Append(stack[r], n))
                               ELSE stack
                   /\ Advance(r, verrs[r])
              ELSE /\ pending' = Set(pending, r,
                            IF res.ok THEN Failure("error", 500, "setup failed")
                            ELSE Failure("http_exception", res.status, res.val.v))
                   /\ dstatus' = Set(dstatus, r, "unwinding")
                   /\ UNCHANGED <<cache, stack, dpc>>
        /\ UNCHANGED <<dreq, verrs, released, closeOk, dresp, bindVars, storeVars, routeVars, clockVars>>

\* The path operation function runs on the solved values.  It returns or
\* raises an HTTPException; the function above a dependency with yield may
\* raise any exception.
RunFunction(r) ==
    LET op == dreq[r].op
        args == FunctionArgs(r)
        res == FunctionCall(op, dreq[r].in, args)
    IN  /\ dstatus[r] = "ready"
        /\ calls' = Set(calls, r, Append(calls[r], [node |-> Function(op), args |-> args]))
        /\ dstatus' = Set(dstatus, r, "unwinding")
        /\ \E raises \in (IF op \in YieldOps THEN BOOLEAN ELSE {FALSE}) :
              IF raises
              THEN /\ pending' = Set(pending, r, Failure("error", 500, "function failed"))
                   /\ UNCHANGED dresp
              ELSE IF ~res.ok
              THEN /\ pending' = Set(pending, r,
                                     Failure("http_exception", res.status, res.val.v))
                   /\ UNCHANGED dresp
              ELSE /\ dresp' = Set(dresp, r, Response("return", res.status, "json", res.val))
                   /\ UNCHANGED pending
        /\ UNCHANGED <<dreq, dpc, cache, verrs, stack, released, closeOk, bindVars, storeVars, routeVars, clockVars>>

\* The client goes away while the request is being handled.
Cancel(r) ==
    /\ dstatus[r] \in {"resolving", "ready"}
    /\ pending' = Set(pending, r, Failure("cancelled", 0, "cancelled"))
    /\ dstatus' = Set(dstatus, r, "unwinding")
    /\ UNCHANGED <<dreq, dpc, cache, calls, verrs, stack, released, closeOk,
                   dresp, bindVars, storeVars, routeVars, clockVars>>

\* The node whose exit step runs next: the one acquired last.
ExitNode(r) == stack[r][Len(stack[r])]

\* One node with yield is resumed to finish.  After a request that succeeded
\* the code after its yield runs; after one that failed or was cancelled the
\* exception is raised at the yield, and only a finally clause runs.  The exit
\* step closes over the values of the nodes it depends on, which must not have
\* exited yet.
Release(r) ==
    LET n == ExitNode(r)
        rest == SelectSeq(stack[r], LAMBDA m : m # n)
        runs == pending[r].k = "none" \/ InFinally(n)
    IN  /\ dstatus[r] = "unwinding"
        /\ stack[r] # << >>
        /\ stack' = Set(stack, r, rest)
        /\ released' = IF runs THEN Set(released, r, Append(released[r], n))
                       ELSE released
        /\ closeOk' = Set(closeOk, r,
                closeOk[r] /\ (runs => \A i \in 1..Len(DepsOf(n)) :
                    Yields(DepsOf(n)[i]) => DepsOf(n)[i] \in Range(rest)))
        /\ UNCHANGED <<dreq, dstatus, dpc, cache, calls, verrs, pending, dresp,
                       bindVars, storeVars, routeVars, clockVars>>

\* Every exit step has run: a pending failure is surfaced to the client.
Complete(r) ==
    /\ dstatus[r] = "unwinding"
    /\ stack[r] = << >>
    /\ dstatus' = Set(dstatus, r, "done")
    /\ dresp' = IF pending[r].k \in {"none", "cancelled"} THEN dresp
                ELSE Set(dresp, r, Response(pending[r].k, pending[r].status,
                                            "json", [detail |-> pending[r].detail]))
    /\ UNCHANGED <<dreq, dpc, cache, calls, verrs, stack, released, closeOk,
                   pending, bindVars, storeVars, routeVars, clockVars>>

\* The handling of the request ends: everything created for it is dropped.
Forget(r) ==
    /\ dstatus[r] = "done"
    /\ dreq' = Set(dreq, r, NoOp)
    /\ dstatus' = Set(dstatus, r, "idle")
    /\ dpc' = Set(dpc, r, 1)
    /\ cache' = Set(cache, r, EmptyCache)
    /\ calls' = Set(calls, r, << >>)
    /\ verrs' = Set(verrs, r, << >>)
    /\ stack' = Set(stack, r, << >>)
    /\ released' = Set(released, r, << >>)
    /\ closeOk' = Set(closeOk, r, TRUE)
    /\ pending' = Set(pending, r, NoFailure)
    /\ dresp' = Set(dresp, r, NoResponse)
    /\ UNCHANGED <<bindVars, storeVars, routeVars, clockVars>>

(***************************************************************************)
(* Concurrently handled requests on the items dictionary.                  *)
(***************************************************************************)
NoStoreRequest == [method |-> "none", item_id |-> "", body |-> RawNone]

\* update_item with an await after `stored_item_data = items[item_id]`.
AwaitsAfterRead(method) == method = "PATCH"

\* Whether the function of the path operation awaits between reading items
\* and writing it: the three functions are `async def` without any await.
Awaits(method) == FALSE

\* The function applied to the dictionary `store`.
Applied(store, rq, bound) ==
    CASE rq.method = "GET" -> read_item(store, rq.item_id)
      [] rq.method = "PUT" -> update_item_put(store, rq.item_id, bound.item)
      [] rq.method = "PATCH" ->
            update_item_patch(store, rq.item_id, bound.item, bound.fields_set)

\* `stored` is the function's local stored_item_data while it is suspended.
NotBound == [item |-> AbsentVal, fields_set |-> {}, stored |-> << >>]

StoreInit ==
    /\ items = ItemsAtStartup
    /\ sphase = [r \in Reqs |-> "idle"]
    /\ sreq = [r \in Reqs |-> NoStoreRequest]
    /\ sbound = [r \in Reqs |-> NotBound]
    /\ sresp = [r \in Reqs |-> NoResponse]

\* A request for one of the three path operations arrives.
StoreReceive(r) ==
    /\ sphase[r] = "idle"
    /\ \E rq \in StoreRequests : sreq' = Set(sreq, r, rq)
    /\ sphase' = Set(sphase, r, "received")
    /\ UNCHANGED <<items, sbound, sresp, bindVars, depVars, routeVars, clockVars>>

\* The body is bound to `item: Item`; with errors the request is answered by
\* the handler of RequestValidationError and its function does not run.
StoreBind(r) ==
    /\ sphase[r] = "received"
    /\ IF sreq[r].method = "GET"
       THEN /\ sphase' = Set(sphase, r, "bound")
            /\ UNCHANGED <<sbound, sresp>>
       ELSE LET b == BindItem(sreq[r].body)
            IN  IF b.errs # << >>
                THEN /\ sresp' = Set(sresp, r, OnValidationError(
                                    HandlerFor("16-body_updates", "RequestValidationError"),
                                    b.errs, sreq[r]))
                     /\ sphase' = Set(sphase, r, "responded")
                     /\ UNCHANGED sbound
                ELSE /\ sbound' = Set(sbound, r,
                                      [item |-> b.val,
                                       fields_set |-> DOMAIN sreq[r].body.fields,
                                       stored |-> << >>])
                     /\ sphase' = Set(sphase, r, "bound")
                     /\ UNCHANGED sresp
    /\ UNCHANGED <<items, sreq, bindVars, depVars, routeVars, clockVars>>

\* The path operation function runs.  It has no await, so nothing of another
\* request runs between its statements; a function that did await after
\* reading the stored item would go on later with what it had read.
StoreCall(r) ==
    /\ sphase[r] \in {"bound", "suspended"}
    /\ IF sphase[r] = "bound" /\ Awaits(sreq[r].method)
            /\ sreq[r].item_id \in DOMAIN items
       THEN /\ sbound' = Set(sbound, r,
                    [sbound[r] EXCEPT !.stored = items[sreq[r].item_id]])
            /\ sphase' = Set(sphase, r, "suspended")
            /\ UNCHANGED <<items, sresp>>
       ELSE LET seen == IF sphase[r] = "suspended"
                        THEN [items EXCEPT ![sreq[r].item_id] = sbound[r].stored]
                        ELSE items
                out == Applied(seen, sreq[r], sbound[r])
            IN  /\ items' = out.items
                /\ sresp' = Set(sresp, r, out.resp)
                /\ sphase' = Set(sphase, r, "responded")
                /\ UNCHANGED sbound
    /\ UNCHANGED <<sreq, bindVars, depVars, routeVars, clockVars>>

\* The response is sent; what was created for the request is dropped.
StoreForget(r) ==
    /\ sphase[r] = "responded"
    /\ sphase' = Set(sphase, r, "idle")
    /\ sreq' = Set(sreq, r, NoStoreRequest)
    /\ sbound' = Set(sbound, r, NotBound)
    /\ sresp' = Set(sresp, r, NoResponse)
    /\ UNCHANGED <<items, bindVars, depVars, routeVars, clockVars>>

RouteInit ==
    /\ rphase = "idle"
    /\ rreq = NoRouteRequest
    /\ rsel = NoSelection

ClockInit ==
    /\ now = 0
    /\ wallet = NoToken

Init == BindInit /\ DepInit /\ StoreInit /\ RouteInit /\ ClockInit

NextBind == Receive \/ BindStep \/ Dispatch \/ Discard

SpecBind == Init /\ [][NextBind]_vars

NextMore == ReceiveMore \/ BindStep \/ Dispatch \/ Discard

SpecMore == Init /\ [][NextMore]_vars

NextLookup == ReceiveLookup \/ BindStep \/ Dispatch \/ Discard

SpecLookup == Init /\ [][NextLookup]_vars

\* Concurrently handled requests for the path operations without yield.
NextDeps ==
    \E r \in Reqs :
        \/ StartRequest(r, SharingOps)
        \/ ResolveCached(r)
        \/ ResolveCall(r)
        \/ RunFunction(r)
        \/ Complete(r)
        \/ Forget(r)

SpecDeps == Init /\ [][NextDeps]_vars

\* Concurrently handled requests for the path operations whose dependencies
\* yield, which the client may abandon.
NextYield ==
    \E r \in Reqs :
        \/ StartRequest(r, YieldOps)
        \/ ResolveCall(r)
        \/ RunFunction(r)
        \/ Cancel(r)
        \/ Release(r)
        \/ Complete(r)
        \/ Forget(r)

SpecYield == Init /\ [][NextYield]_vars

\* The exit steps owed are run: the framework closes the request's exit stack
\* in a finally clause, whatever ended the request.
FairYield == SpecYield /\ \A r \in Reqs : WF_vars(Release(r)) /\ WF_vars(Complete(r))

Alone(r) == \A r2 \in Reqs \ {r} : dstatus[r2] = "idle"

\* Requests for every path operation, handled one after the other.
NextSeq ==
    \E r \in Reqs :
        \/ Alone(r) /\ StartRequest(r, AllOps)
        \/ ResolveCached(r)
        \/ ResolveSkipped(r)
        \/ ResolveCall(r)
        \/ RunFunction(r)
        \/ Cancel(r)
        \/ Release(r)
        \/ Complete(r)
        \/ Forget(r)

SpecSeq == Init /\ [][NextSeq]_vars

\* A request arrives at one of the routed applications.
RouteReceive ==
    /\ rphase = "idle"
    /\ \E app \in RoutedApps, method \in {"GET", "PUT"}, segs \in Paths :
          rreq' = [app |-> app, method |-> method, segs |-> segs]
    /\ rphase' = "received"
    /\ UNCHANGED <<rsel, bindVars, depVars, storeVars, clockVars>>

\* The application looks its path operations up, in order.
RouteMatch ==
    /\ rphase = "received"
    /\ rsel' = Select(Routes(rreq.app), rreq.method, rreq.segs)
    /\ rphase' = "matched"
    /\ UNCHANGED <<rreq, bindVars, depVars, storeVars, clockVars>>

\* The request is handed on; nothing of the lookup is kept.
RouteForget ==
    /\ rphase = "matched"
    /\ rphase' = "idle"
    /\ rreq' = NoRouteRequest
    /\ rsel' = NoSelection
    /\ UNCHANGED <<bindVars, depVars, storeVars, clockVars>>

NextRoute == RouteReceive \/ RouteMatch \/ RouteForget

\* A request arrives at 17-dependencies or at the app package.
ServeReceive ==
    /\ rphase = "idle"
    /\ \E app \in {"17-dependencies", "app"} : \E rq \in ServedRequests(app) :
          rreq' = rq
    /\ rphase' = "received"
    /\ UNCHANGED <<rsel, bindVars, depVars, storeVars, clockVars>>

\* A request arrives at 18-security; the handling reads the clock once.
SecurityReceive ==
    /\ rphase = "idle"
    /\ \E rq \in SecurityRequests(now, wallet) : rreq' = rq
    /\ rphase' = "received"
    /\ UNCHANGED <<rsel, bindVars, depVars, storeVars, clockVars>>

\* A minute passes between two requests.
Tick ==
    /\ rphase = "idle"
    /\ now < MaxClock
    /\ now' = now + 1
    /\ UNCHANGED <<wallet, bindVars, depVars, storeVars, routeVars>>

\* The request goes to the path operation the lookup selected, whose
\* dependencies are solved next; without one it is answered 404 or 405.
ServeStart(r) ==
    /\ rphase = "matched"
    /\ dstatus[r] = "idle"
    /\ rphase' = "serving"
    /\ IF rsel.status = 200
       THEN /\ dreq' = Set(dreq, r, [op |-> OpOf(rreq.app, rsel.endpoint),
                                     in |-> With(rreq.in, [segs |-> rreq.segs])])
            /\ dstatus' = Set(dstatus, r, "resolving")
            /\ UNCHANGED dresp
       ELSE /\ dresp' = Set(dresp, r,
                    Response("routing", rsel.status, "json",
                             [detail |-> IF rsel.status = 404 THEN "Not Found"
                                         ELSE "Method Not Allowed"]))
            /\ dstatus' = Set(dstatus, r, "done")
            /\ UNCHANGED dreq
    /\ UNCHANGED <<rreq, rsel, dpc, cache, calls, verrs, stack, released, closeOk,
                   pending, bindVars, storeVars, clockVars>>

\* The response is sent and everything created for the request is dropped;
\* the client keeps the access token of a sign-in that succeeded.
ServeForget(r) ==
    /\ rphase = "serving"
    /\ dstatus[r] = "done"
    /\ wallet' = IF rsel.endpoint = "login" /\ dresp[r].status = 200
                 THEN dresp[r].content.access_token ELSE wallet
    /\ rphase' = "idle"
    /\ rreq' = NoRouteRequest
    /\ rsel' = NoSelection
    /\ dreq' = Set(dreq, r, NoOp)
    /\ dstatus' = Set(dstatus, r, "idle")
    /\ dpc' = Set(dpc, r, 1)
    /\ cache' = Set(cache, r, EmptyCache)
    /\ calls' = Set(calls, r, << >>)
    /\ verrs' = Set(verrs, r, << >>)
    /\ stack' = Set(stack, r, << >>)
    /\ released' = Set(released, r, << >>)
    /\ closeOk' = Set(closeOk, r, TRUE)
    /\ pending' = Set(pending, r, NoFailure)
    /\ dresp' = Set(dresp, r, NoResponse)
    /\ UNCHANGED <<now, bindVars, storeVars>>

\* The request slot the served requests are handled in, one at a time.
Serving == {r \in Reqs : \A q \in Reqs : r <= q}

\* The steps of a request from the route lookup to the response.
Handle ==
    \E r \in Serving :
        \/ ServeStart(r)
        \/ ResolveSkipped(r)
        \/ ResolveCall(r)
        \/ RunFunction(r)
        \/ Complete(r)
        \/ ServeForget(r)

NextServe == ServeReceive \/ RouteMatch \/ Handle

SpecServe == Init /\ [][NextServe]_vars

NextSecurity == Tick \/ SecurityReceive \/ RouteMatch \/ Handle

SpecSecurity == Init /\ [][NextSecurity]_vars

SpecRoute == Init /\ [][NextRoute]_vars

NextStore ==
    \E r \in Reqs :
        \/ StoreReceive(r)
        \/ StoreBind(r)
        \/ StoreCall(r)
        \/ StoreForget(r)

SpecStore == Init /\ [][NextStore]_vars

(***************************************************************************)
(* Properties of binding and dispatch (SpecBind).                          *)
(***************************************************************************)
Count(q, e) == Cardinality({i \in 1..Len(q) : q[i] = e})

Bound == bphase \in {"bound", "responded"}

\* The raw value of nested field g of the object raw value rv.
Nested(rv, g) == IF g.wire \in DOMAIN rv.fields THEN rv.fields[g.wire] ELSE RawNone

\* Field f, whose raw value is rv and whose dotted path is loc, is required
\* and without value, and the error list holds not exactly one MISSING for it.
MissingNotReported(f, rv, loc) ==
    f.required /\ rv.k = "none" /\ Count(bout.errors, Err(loc, "MISSING")) # 1

\* Some error that field f yields on its own is not in the error list.
ErrorSuppressed(f, rv, loc) ==
    \E e \in Range(BindField(f, rv, loc).errs) : e \notin Range(bout.errors)

\* C1: every required field without default and without value yields exactly
\* one MISSING error at its dotted path, and the errors of every other field
\* are reported as well (no short-circuit), for top-level fields and for the
\* fields of a body model that is present; in particular GET /items_obr/..
\* without needy reports query.needy MISSING next to the errors of skip and
\* limit, and PUT /items/many_body/.. without body reports body.item and
\* body.user MISSING next to the error of item_id.
C1_AllMissingAndNoShortCircuit ==
    Bound =>
        LET P == Params(breq.ep)
        IN  /\ \A i \in 1..Len(P) :
                LET f == P[i]
                    rv == Extract(f, breq)
                IN  /\ ~MissingNotReported(f, rv, TopLoc(f))
                    /\ ~ErrorSuppressed(f, rv, TopLoc(f))
                    /\ (f.type = "object" /\ rv.k = "object") =>
                          \A j \in 1..Len(ModelFields(f.model)) :
                             LET g == ModelFields(f.model)[j]
                             IN  /\ ~MissingNotReported(g, Nested(rv, g),
                                                        TopLoc(f) \o <<g.wire>>)
                                 /\ ~ErrorSuppressed(g, Nested(rv, g),
                                                     TopLoc(f) \o <<g.wire>>)
            /\ (breq.ep = "items_obr" /\ breq.query["needy"].k = "none") =>
                  /\ Count(bout.errors, Err(<<"query", "needy">>, "MISSING")) = 1
                  /\ \A n \in {"skip", "limit"} :
                        (breq.query[n].k = "text" /\ ~IsIntLiteral(breq.query[n].t))
                            => Err(<<"query", n>>, "TYPE_ERROR") \in Range(bout.errors)
            /\ (breq.ep = "many_body" /\ breq.body.k = "none") =>
                  /\ Count(bout.errors, Err(<<"body", "item">>, "MISSING")) = 1
                  /\ Count(bout.errors, Err(<<"body", "user">>, "MISSING")) = 1
                  /\ ~IsIntLiteral(breq.path["item_id"].t)
                        => Err(<<"path", "item_id">>, "TYPE_ERROR") \in Range(bout.errors)

\* A request without needy and with a non-numeric skip has been bound: two
\* errors, the MISSING one among them.
C1_Witness ==
    /\ bphase = "bound"
    /\ breq.ep = "items_obr"
    /\ breq.query["needy"].k = "none"
    /\ breq.query["skip"] = RawText(<<"a">>)
    /\ Len(bout.errors) = 2

\* What the scenario says of an integer path field and an optional query
\* string with a minimum length, for fields named idn and qn.
ScenarioHolds(idn, qwire, qn, minLen) ==
    LET idt == breq.path[idn].t
        q == breq.query[qwire]
        qShort == q.k = "text" /\ Len(q.t) < minLen
    IN  /\ (IsIntLiteral(idt) /\ q.k = "none") =>
              /\ bout.errors = << >>
              /\ bout.values[idn] = IntVal(ParseInt(idt))
              /\ bout.values[qn] = AbsentVal
        /\ (~IsIntLiteral(idt) /\ ~qShort) =>
              bout.errors = <<Err(<<"path", idn>>, "TYPE_ERROR")>>
        /\ (IsIntLiteral(idt) /\ qShort) =>
              bout.errors = <<Err(<<"query", qwire>>, "RANGE_ERROR")>>
        /\ idt = <<"3">> => bout.values[idn] = IntVal(3)
        /\ idt = <<"-", "3">> => bout.values[idn] = IntVal(0 - 3)
        /\ idt \in {<<"a">>, <<"-">>, <<"3", "a">>, <<"3", "-">>} =>
              Err(<<"path", idn>>, "TYPE_ERROR") \in Range(bout.errors)

\* C2: for {id: integer required path; q: optional query string, min_length
\* 3}: a numeric id and no q binds {id, q absent} without error; a
\* non-numeric id yields exactly the error (path id, TYPE_ERROR); a numeric
\* id with a q shorter than 3 yields exactly the error (query q, RANGE_ERROR).
\* The same holds of GET /items/p_prms/{item_id} (whose q, alias item-query,
\* declares no minimum) and of the q of GET /items/metadata/ (min_length 3).
C2_ScenarioBinding ==
    Bound =>
        /\ breq.ep = "scenario" => ScenarioHolds("id", "q", "q", 3)
        /\ breq.ep = "p_prms" => ScenarioHolds("item_id", "item-query", "q", 0)
        /\ breq.ep = "metadata" =>
              LET q == breq.query["q"]
              IN  /\ q.k = "none" =>
                        bout.errors = << >> /\ bout.values["q"] = AbsentVal
                  /\ (q.k = "text" /\ Len(q.t) < 3) =>
                        bout.errors = <<Err(<<"query", "q">>, "RANGE_ERROR")>>
                  /\ (q.k = "text" /\ Len(q.t) >= 3) =>
                        bout.errors = << >> /\ bout.values["q"] = StrVal(q.t)

\* The scenario's third request has been bound: id "3", q "aa".
C2_Witness ==
    /\ bphase = "bound"
    /\ breq.ep = "scenario"
    /\ breq.path["id"] = RawText(<<"3">>)
    /\ breq.query["q"] = RawText(<<"a", "a">>)
    /\ bout.errors = <<Err(<<"query", "q">>, "RANGE_ERROR")>>

\* Every required field of the fields P has a value in vals, also inside the
\* body models.
Populated(P, vals) ==
    \A i \in 1..Len(P) :
        /\ P[i].name \in DOMAIN vals
        /\ P[i].required => vals[P[i].name].k # "absent"
        /\ P[i].type = "object" =>
              LET M == ModelFields(P[i].model)
              IN  \A j \in 1..Len(M) :
                     M[j].required => vals[P[i].name].fields[M[j].name].k # "absent"

\* C3: binding ends in bound values without error or in a non-empty error
\* list without values handed on: the path operation function runs if and
\* only if the error list is empty, then on the fully populated bound values
\* (create_item of 15-handling_errors on an item with a str title and an int
\* size); a response answers a validation failure only if the list is
\* non-empty.
C3_HandlerIffNoError ==
    bphase = "responded" =>
        /\ bcall.ran <=> bout.errors = << >>
        /\ bresp.cause = "validation" <=> bout.errors # << >>
        /\ bcall.ran =>
              /\ bcall.args = bout.values
              /\ Populated(Params(breq.ep), bcall.args)
              /\ breq.ep = "items_err" =>
                    /\ bcall.args["item"].fields["title"].k = "str"
                    /\ bcall.args["item"].fields["size"].k = "int"
        /\ ~bcall.ran =>
              /\ bcall.args = << >>
              /\ bresp.status >= 400
              /\ Len(bresp.content.detail) >= 1

\* POST /items_err/ has been answered once with the function run on a valid
\* item, and once without it on an item whose size is not an integer.
C3_Witness ==
    /\ bphase = "responded"
    /\ breq.ep = "items_err"
    /\ breq.body.k = "object"
    /\ breq.body.fields["size"] = RawText(<<"a">>)
    /\ ~bcall.ran
    /\ bout.errors = <<Err(<<"body", "size">>, "TYPE_ERROR")>>

\* C10: a request whose binding produced an error is answered with status
\* 422 and the complete ordered error list; in 15-handling_errors the
\* response is the JSON one with the received body, never the 400 text one.
C10_ValidationErrorIs422 ==
    (bphase = "responded" /\ bout.errors # << >>) =>
        /\ bresp.status = 422
        /\ bresp.content.detail = bout.errors
        /\ AppOf(breq.ep) = "15-handling_errors" =>
              /\ bresp.media = "json"
              /\ bresp.content.body = breq.body

\* GET /items_except/a has been answered.
C10_Witness ==
    /\ bphase = "responded"
    /\ breq.ep = "items_except"
    /\ breq.path["item_id"] = RawText(<<"a">>)
    /\ bresp.status = 422
    /\ bresp.content.detail = <<Err(<<"path", "item_id">>, "TYPE_ERROR")>>

(***************************************************************************)
(* Properties of dependency resolution.                                    *)
(***************************************************************************)
\* The nodes request r has called, in order.
Called(r) == [i \in 1..Len(calls[r]) |-> calls[r][i].node]

TimesCalled(r, n) == Cardinality({i \in 1..Len(calls[r]) : calls[r][i].node = n})

\* The call of n by request r (the first one).
CallOf(r, n) == calls[r][CHOOSE i \in 1..Len(calls[r]) : calls[r][i].node = n]

\* `if not q: return last_query; return q` on what a request carries.
QueryOrCookie(in) == IF Truthy(in.q) THEN in.q ELSE in.last_query

\* C4: within one request every node is called at most once, also a node
\* that two nodes depend on, and each dependent is passed the one value the
\* request's cache holds for it; a cached value was solved by a call of the
\* same request from what that request carries (GET /items/sub/ answers with
\* its own q or cookie, GET /users/me/ solves its own token), never taken
\* from another request.
C4_SolvedOncePerRequest ==
    \A r \in Reqs :
        /\ \A n \in Nodes : TimesCalled(r, n) <= 1
        /\ \A n \in Nodes : cache[r][n].state = "set" => TimesCalled(r, n) = 1
        /\ \A i \in 1..Len(calls[r]) :
              LET c == calls[r][i]
                  deps == IF c.node = Function(dreq[r].op)
                          THEN SelectSeq(DepsOf(c.node), LAMBDA d : ~ValueDropped(d))
                          ELSE DepsOf(c.node)
              IN  /\ Len(c.args) = Len(deps)
                  /\ \A j \in 1..Len(deps) :
                        /\ cache[r][deps[j]].state = "set"
                        /\ c.args[j] = cache[r][deps[j]].v
        /\ (TimesCalled(r, "left") = 1 /\ TimesCalled(r, "right") = 1) =>
              CallOf(r, "left").args = CallOf(r, "right").args
        /\ cache[r]["query_extractor"].state = "set" =>
              cache[r]["query_extractor"].v = dreq[r].in.q
        /\ cache[r]["oauth2_scheme"].state = "set" =>
              cache[r]["oauth2_scheme"].v.v = dreq[r].in.token
        /\ (dreq[r].op = "sub" /\ dstatus[r] = "done") =>
              dresp[r].content.q_or_cookie = QueryOrCookie(dreq[r].in)

\* Two requests for the diamond are in flight; one has passed the shared
\* node's value to both of its dependents, the other has solved the shared
\* node itself.
C4_Witness ==
    \E r1, r2 \in Reqs :
        /\ r1 # r2
        /\ dreq[r1].op = "diamond" /\ dreq[r2].op = "diamond"
        /\ Called(r1) = <<"shared", "left", "right">>
        /\ cache[r2]["shared"].state = "set"
        /\ dstatus[r2] = "resolving"

\* Node d was called by request r before the i-th call.
CalledBefore(r, d, i) == \E j \in 1..(i - 1) : calls[r][j].node = d

\* C5: under every interleaving of the requests, a node is called only
\* after every node it declares a dependency on has been called and has
\* returned for the same request, and the path operation function only after
\* all of its nodes: get_current_active_user after get_current_user after
\* oauth2_scheme, query_or_cookie_extractor after query_extractor, read_query
\* after query_or_cookie_extractor.
C5_DependenciesFirst ==
    \A r \in Reqs :
        /\ \A i \in 1..Len(calls[r]) :
              \A d \in Range(DepsOf(calls[r][i].node)) :
                  CalledBefore(r, d, i) /\ cache[r][d].state = "set"
        /\ \A i \in 1..Len(calls[r]) :
              LET n == calls[r][i].node
              IN  /\ n = "get_current_active_user" => CalledBefore(r, "get_current_user", i)
                  /\ n = "get_current_user" => CalledBefore(r, "oauth2_scheme", i)
                  /\ n = "query_or_cookie_extractor" => CalledBefore(r, "query_extractor", i)
                  /\ n = "read_query" => CalledBefore(r, "query_or_cookie_extractor", i)
                  /\ n = "read_users_me" => CalledBefore(r, "get_current_active_user", i)

\* While one request for GET /users/me/ has only solved oauth2_scheme, another
\* one has run get_current_active_user and its function.
C5_Witness ==
    \E r1, r2 \in Reqs :
        /\ Called(r1) = <<"oauth2_scheme">>
        /\ dstatus[r1] = "resolving"
        /\ Called(r2) = <<"oauth2_scheme", "get_current_user",
                          "get_current_active_user", "read_users_me">>

Reverse(q) == [i \in 1..Len(q) |-> q[Len(q) + 1 - i]]

IsPrefix(p, q) == Len(p) <= Len(q) /\ SubSeq(q, 1, Len(p)) = p

\* The nodes with yield that request r has acquired, in order of acquisition.
Acquired(r) ==
    SelectSeq(Called(r), LAMBDA n : Yields(n) /\ cache[r][n].state = "set")

\* C6: a request for the chain calls dependency_a once, then dependency_b
\* once on a's value, then dependency_c once on b's value, then the function;
\* the exit steps run after the request has been answered, c first, then b,
\* then a, each while the value it closes over is still available.
C6_ChainOrder ==
    \A r \in Reqs : dreq[r].op = "chain" =>
        /\ IsPrefix(Called(r), <<"dependency_a", "dependency_b", "dependency_c",
                                 "chain_function">>)
        /\ \A i \in 2..Len(calls[r]) :
              calls[r][i].args = <<cache[r][calls[r][i - 1].node].v>>
        /\ IsPrefix(released[r], <<"dependency_c", "dependency_b", "dependency_a">>)
              \/ pending[r].k # "none"
        /\ released[r] # << >> => dstatus[r] \in {"unwinding", "done"}
        /\ (released[r] # << >> /\ pending[r].k = "none") => dresp[r].status = 200
        /\ closeOk[r]
        /\ (dstatus[r] = "done" /\ pending[r].k = "none") =>
              /\ Called(r) = <<"dependency_a", "dependency_b", "dependency_c",
                               "chain_function">>
              /\ released[r] = <<"dependency_c", "dependency_b", "dependency_a">>

\* A request for the chain has succeeded and run its three exit steps.
C6_Witness ==
    \E r \in Reqs :
        /\ dreq[r].op = "chain"
        /\ dstatus[r] = "done"
        /\ dresp[r].status = 200
        /\ released[r] = <<"dependency_c", "dependency_b", "dependency_a">>

YieldNodes == {n \in Nodes : Yields(n)}

\* Exit steps ran at most once each, only for nodes acquired, and in the
\* reverse order of acquisition: what ran and what is still owed, read
\* backwards, is what was acquired.
ReleaseDiscipline(r) ==
    /\ \A n \in Nodes : Count(released[r], n) <= 1
    /\ \A n \in Range(released[r]) : Yields(n) /\ cache[r][n].state = "set"
    /\ \A n \in YieldNodes : cache[r][n].state # "set" =>
          n \notin Range(released[r]) /\ n \notin Range(stack[r])
    /\ Reverse(stack[r]) = SubSeq(Reverse(Acquired(r)), Len(released[r]) + 1,
                                  Len(Acquired(r)))
    /\ released[r] = SubSeq(Reverse(Acquired(r)), 1, Len(released[r]))
    /\ dstatus[r] = "done" => released[r] = Reverse(Acquired(r))

\* C7: the exit step of a node with yield runs exactly once for each
\* successful setup, never for a setup that failed and never twice, in the
\* reverse order of acquisition, and once the request is over (function
\* returned, function raised, a node raised, or the client went away) every
\* exit step owed eventually runs.
C7_ReleaseOncePerAcquire ==
    /\ [](\A r \in Reqs : ReleaseDiscipline(r))
    /\ \A r \in Reqs :
          (dstatus[r] = "unwinding")
              ~> (stack[r] = << >> /\ released[r] = Reverse(Acquired(r)))

\* A cancelled request for the chain, abandoned when a and b were acquired,
\* has run the exit steps of b and a.
C7_Witness ==
    \E r \in Reqs :
        /\ dreq[r].op = "chain"
        /\ pending[r].k = "cancelled"
        /\ Called(r) = <<"dependency_a", "dependency_b">>
        /\ released[r] = <<"dependency_b", "dependency_a">>
        /\ dstatus[r] = "done"

RECURSIVE DependsOn(_, _)
\* Node m depends on node n, directly or through other nodes.
DependsOn(m, n) ==
    \E i \in 1..Len(DepsOf(m)) : DepsOf(m)[i] = n \/ DependsOn(DepsOf(m)[i], n)

\* Request r failed in a node: the last node called raised.
NodeFailed(r) ==
    /\ pending[r].k \in {"http_exception", "error"}
    /\ Function(dreq[r].op) \notin Range(Called(r))

FailedNode(r) == calls[r][Len(calls[r])].node

\* C8: when a node raises, no node depending on it and not the function is
\* called for that request, and every exit step owed has run when the failure
\* is answered to the client; GET /items/ of 17-dependencies with a wrong
\* X-Token is answered 400 after verify_token alone, GET /users/me/ with a
\* token that does not verify 401 after get_current_user, GET /items/ of the
\* app package with a wrong X-Token 400 after get_token_header.
C8_FailurePropagates ==
    \A r \in Reqs :
        /\ NodeFailed(r) =>
              /\ cache[r][FailedNode(r)].state = "unset"
              /\ \A m \in Range(Called(r)) : ~DependsOn(m, FailedNode(r))
              /\ dresp[r] # NoResponse =>
                    /\ stack[r] = << >>
                    /\ released[r] = Reverse(Acquired(r))
                    /\ dresp[r].status = pending[r].status
              /\ dstatus[r] = "done" => dresp[r].status >= 400
        /\ (dstatus[r] = "done" /\ pending[r].k # "cancelled") =>
              /\ (dreq[r].op = "items17" /\ dreq[r].in.x_token = "wrong") =>
                    dresp[r].status = 400 /\ Called(r) = <<"verify_token">>
              /\ (dreq[r].op = "items17" /\ dreq[r].in.x_token = "fake-super-secret-token"
                    /\ dreq[r].in.x_key = "wrong") =>
                    dresp[r].status = 400 /\ Called(r) = <<"verify_token", "verify_key">>
              /\ (dreq[r].op = "users_me" /\ dreq[r].in.token.k = "jwt"
                    /\ ~dreq[r].in.token.signed) =>
                    /\ dresp[r].status = 401
                    /\ Called(r) = <<"oauth2_scheme", "get_current_user">>
              /\ (dreq[r].op = "items_app" /\ dreq[r].in.token = "jessica"
                    /\ dreq[r].in.x_token = "wrong") =>
                    /\ dresp[r].status = 400
                    /\ Called(r) = <<"get_query_token", "get_token_header">>

\* The setup of dependency_b failed after dependency_a was acquired: the
\* request is answered 500 with a's exit step run and c never called.
C8_Witness ==
    \E r \in Reqs :
        /\ dreq[r].op = "chain"
        /\ dstatus[r] = "done"
        /\ Called(r) = <<"dependency_a", "dependency_b">>
        /\ pending[r].k = "error"
        /\ released[r] = <<"dependency_a">>
        /\ dresp[r].status = 500

(***************************************************************************)
(* Properties of the items store (SpecStore).                              *)
(***************************************************************************)
\* C9, as claimed: whenever no request is being handled, the process-wide
\* state (the items dictionary) is what it was after startup.
C9_StateAsAfterStartup ==
    (\A r \in Reqs : sphase[r] = "idle") => items = ItemsAtStartup

\* Request r's path operation function runs in this step.
Calls(r) == sphase[r] = "bound" /\ sphase'[r] = "responded"

\* C9, amended: nothing created for a request outlives its handling except
\* what its function stores.  The request, its bound item and its response
\* are dropped when the handling ends; the items dictionary changes only in
\* the step in which the function of a PUT or PATCH runs on a body that
\* validated, and only under that request's item id; a request that fails
\* validation is answered 422 and leaves the dictionary as it was, as does a
\* GET, whose response is the item stored when its function runs.
C9_OnlyStoredItemsOutliveARequest ==
    /\ [](\A r \in Reqs : sphase[r] = "idle" =>
            sreq[r] = NoStoreRequest /\ sbound[r] = NotBound /\ sresp[r] = NoResponse)
    /\ [][items' # items =>
            \E r \in Reqs :
                /\ Calls(r)
                /\ sreq[r].method \in {"PUT", "PATCH"}
                /\ sbound[r] # NotBound
                /\ sresp'[r].status = 200
                /\ DOMAIN items' = DOMAIN items \cup {sreq[r].item_id}
                /\ \A id \in DOMAIN items \ {sreq[r].item_id} : items'[id] = items[id]
         ]_vars
    /\ [][\A r \in Reqs :
            /\ (sphase[r] = "received" /\ sphase'[r] = "responded") =>
                  /\ sresp'[r].cause = "validation"
                  /\ sresp'[r].status = 422
                  /\ items' = items
            /\ (Calls(r) /\ sreq[r].method = "GET") =>
                  /\ items' = items
                  /\ sreq[r].item_id \in DOMAIN items =>
                        sresp'[r].content = ItemModel(items[sreq[r].item_id])
         ]_vars

\* One request was answered 422 without a change to the dictionary, after
\* another one, whose handling is over, stored an item under "foo".
C9_Witness ==
    \E r1, r2 \in Reqs :
        /\ sphase[r1] = "responded"
        /\ sresp[r1].cause = "validation"
        /\ sphase[r2] = "idle"
        /\ items["foo"] # ItemsAtStartup["foo"]

(***************************************************************************)
(* Properties of the further path operations (SpecMore).                   *)
(***************************************************************************)
\* Text t spells one of the words in some letter case.
Spells(t, words) == \E w \in words : t \in CaseVariants(w)

\* C11: the boolean field short of GET /items/{item_id} binds to true for
\* true, 1, yes, on in any letter case, to false for false, 0, no, off in any
\* letter case, and for every other text yields exactly one TYPE_ERROR and no
\* bound value, so that the function does not run; when it runs, the
\* description is left out exactly for short = true.
C11_BooleanVocabulary ==
    (Bound /\ breq.ep = "items_short" /\ breq.query["short"].k = "text") =>
        LET t == breq.query["short"].t
            e == Err(<<"query", "short">>, "TYPE_ERROR")
        IN  /\ Spells(t, TrueWords) =>
                  e \notin Range(bout.errors) /\ bout.values["short"] = BoolVal(TRUE)
            /\ Spells(t, FalseWords) =>
                  e \notin Range(bout.errors) /\ bout.values["short"] = BoolVal(FALSE)
            /\ ~Spells(t, TrueWords \cup FalseWords) =>
                  /\ Count(bout.errors, e) = 1
                  /\ bout.values["short"] = AbsentVal
                  /\ bphase = "responded" => ~bcall.ran /\ bresp.cause = "validation"
            /\ t \in {<<"T", "R", "U", "E">>, <<"1">>, <<"Y", "e", "s">>, <<"o", "N">>} =>
                  bout.values["short"] = BoolVal(TRUE)
            /\ t \in {<<"F", "a", "l", "s", "e">>, <<"0">>, <<"N", "O">>, <<"o", "f", "F">>} =>
                  bout.values["short"] = BoolVal(FALSE)
            /\ t \in {<< >>, <<"2">>, <<"t">>, <<"n">>, <<"t", "r", "u">>} =>
                  bout.errors = <<e>>
            /\ (bphase = "responded" /\ bcall.ran) =>
                  ("description" \in DOMAIN bresp.content <=> Spells(t, FalseWords))

\* A request with short=YeS has been answered without the description.
C11_Witness ==
    /\ bphase = "responded"
    /\ breq.ep = "items_short"
    /\ breq.query["short"] = RawText(<<"Y", "e", "S">>)
    /\ bcall.ran
    /\ "description" \notin DOMAIN bresp.content

\* The raw value of the tags of a request for PUT /items/set/{item_id}.
TagsGiven == Nested(breq.body, ByName(ItemSetFields, "tags"))

\* C12: whatever list of texts a request gives for the set-typed tags of
\* ItemSet, repeated or not, the bound set holds each distinct text exactly
\* once and nothing else: as many members as there are distinct texts, not
\* as many as there are occurrences; without tags it is the empty set.
C12_SetHoldsDistinctValues ==
    (Bound /\ breq.ep = "items_set" /\ breq.body.k = "object"
        /\ breq.ctype = "json") =>
        LET tags == bout.values["item"].fields["tags"]
        IN  /\ tags.k = "set"
            /\ \A i, j \in 1..Len(tags.v) : i # j => tags.v[i] # tags.v[j]
            /\ TagsGiven.k = "none" => tags.v = << >>
            /\ TagsGiven.k = "list" =>
                  /\ Len(tags.v) = Cardinality(Range(TagsGiven.items))
                  /\ {tags.v[i].v : i \in 1..Len(tags.v)} = Range(TagsGiven.items)
                  /\ \A i \in 1..Len(tags.v) : tags.v[i].k = "str"
            /\ TagsGiven = RawList(<< <<"a">>, <<"3">>, <<"a">> >>) =>
                  tags = SetVal(<<StrVal(<<"a">>), StrVal(<<"3">>)>>)

\* An item whose tags are a, a, 3 has been bound without error to a set of
\* two members.
C12_Witness ==
    /\ bphase = "bound"
    /\ breq.ep = "items_set"
    /\ breq.body.k = "object"
    /\ breq.ctype = "json"
    /\ TagsGiven = RawList(<< <<"a">>, <<"a">>, <<"3">> >>)
    /\ bout.errors = << >>
    /\ Len(bout.values["item"].fields["tags"].v) = 2

\* The errors reported for the dotted path loc.
ErrorsAt(loc) == {i \in 1..Len(bout.errors) : bout.errors[i].loc = loc}

OnlyError(loc, kind) ==
    /\ ErrorsAt(loc) # {}
    /\ Cardinality(ErrorsAt(loc)) = 1
    /\ \A i \in ErrorsAt(loc) : bout.errors[i].kind = kind

\* The path parameter item_id, given as text t, binds exactly when t is an
\* integer within lo..hi; an integer outside yields one RANGE_ERROR, a text
\* that is no integer one TYPE_ERROR and no RANGE_ERROR.
IdBoundTo(t, lo, hi) ==
    LET loc == <<"path", "item_id">>
    IN  IF ~IsIntLiteral(t) THEN OnlyError(loc, "TYPE_ERROR")
        ELSE IF lo <= ParseInt(t) /\ ParseInt(t) <= hi
        THEN ErrorsAt(loc) = {} /\ bout.values["item_id"] = IntVal(ParseInt(t))
        ELSE OnlyError(loc, "RANGE_ERROR")

\* C14: numeric bounds are enforced as declared and only after coercion:
\* item_id of /items/int_valid/ (gt=0, le=1000) binds exactly for 1..1000,
\* item_id of /items/float_valid/ and /items/single_body/ (ge=0, le=1000)
\* exactly for 0..1000, size (gt=0, lt=10.5) exactly strictly between 0 and
\* 10.5; a violation yields one RANGE_ERROR for that field, a text that is no
\* number a TYPE_ERROR instead; the request binds without error exactly when
\* every field is present and within its bounds.
C14_NumericBounds ==
    (Bound /\ breq.ep \in {"int_valid", "float_valid", "single_body"}) =>
        LET t == breq.path["item_id"].t
        IN  /\ breq.ep = "int_valid" =>
                /\ IdBoundTo(t, 1, 1000)
                /\ bout.errors = << >> <=>
                      /\ IsIntLiteral(t) /\ 0 < ParseInt(t) /\ ParseInt(t) <= 1000
                      /\ breq.query["q"].k = "text"
            /\ breq.ep \in {"float_valid", "single_body"} => IdBoundTo(t, 0, 1000)
            /\ (breq.ep = "float_valid" /\ breq.query["size"].k = "text") =>
                  LET u == breq.query["size"].t
                      loc == <<"query", "size">>
                  IN  IF ~IsFloatLiteral(u) THEN OnlyError(loc, "TYPE_ERROR")
                      ELSE IF 0 < ParseTenths(u) /\ ParseTenths(u) < 105
                      THEN ErrorsAt(loc) = {}
                      ELSE OnlyError(loc, "RANGE_ERROR")

\* GET /items/int_valid/0?q=a has been rejected with one RANGE_ERROR for
\* item_id, and the function did not run.
C14_Witness ==
    /\ bphase = "responded"
    /\ breq.ep = "int_valid"
    /\ breq.query["q"].k = "text"
    /\ breq.path["item_id"].t = <<"0">>
    /\ bout.errors = <<Err(<<"path", "item_id">>, "RANGE_ERROR")>>
    /\ ~bcall.ran

\* The headers of the request whose name, in lower case, is `lower`.
Carried(lower) == {h \in DOMAIN breq.headers : Lower(h) = lower}

\* The header-sourced field `name` is bound to the value of the one header
\* spelled `lower` in lower case, or to the absent marker without it.
BoundFromHeader(name, lower) ==
    /\ bout.errors = << >>
    /\ IF Carried(lower) = {} THEN bout.values[name] = AbsentVal
       ELSE \A h \in Carried(lower) : bout.values[name] = StrVal(breq.headers[h].t)

\* C15: a header-sourced field is matched case-insensitively and, by
\* default, with its underscores replaced by hyphens: user_agent of GET
\* /items/header/ binds the header User-Agent in any letter case and not
\* user_agent; strange_header of GET /items/header_convert_/, declared with
\* convert_underscores=False, binds the header strange_header in any letter
\* case and not strange-header.
C15_HeaderNames ==
    /\ (Bound /\ breq.ep = "header") =>
          BoundFromHeader("user_agent", <<"u", "s", "e", "r", "-", "a", "g", "e", "n", "t">>)
    /\ (Bound /\ breq.ep = "header_convert_") =>
          BoundFromHeader("strange_header",
              <<"s", "t", "r", "a", "n", "g", "e", "_", "h", "e", "a", "d", "e", "r">>)

\* A request carrying both Strange-Header: a and STRANGE_HEADER: b has been
\* answered with strange_header = b.
C15_Witness ==
    /\ bphase = "responded"
    /\ breq.ep = "header_convert_"
    /\ DOMAIN breq.headers =
          {<<"S", "t", "r", "a", "n", "g", "e", "-", "H", "e", "a", "d", "e", "r">>,
           <<"S", "T", "R", "A", "N", "G", "E", "_", "H", "E", "A", "D", "E", "R">>}
    /\ breq.headers[<<"S", "t", "r", "a", "n", "g", "e", "-", "H", "e", "a", "d", "e", "r">>]
          = RawText(<<"a">>)
    /\ bcall.ran
    /\ bresp.content["strange_header"] = StrVal(<<"b">>)

\* The positions of the error list that concern the body.
BodyErrors == {i \in 1..Len(bout.errors) : bout.errors[i].loc[1] = "body"}

\* The declared fields of the request's path operation, body-sourced or not.
FieldsFrom(body) ==
    {i \in 1..Len(Params(breq.ep)) : (Params(breq.ep)[i].source = "body") = body}

\* C16: when the declared content type of a request is not the encoding its
\* schema expects (JSON for /items/single_body/ and /items/set/, form for
\* /login/, multipart for /form_files/), the error list holds exactly one
\* UNSUPPORTED_MEDIA_TYPE at the request level, no body field is bound and
\* no body field has an error of its own, while every other field is bound
\* and validated as without the mismatch, its errors in the same list; with
\* the expected content type there is no such error.
C16_MediaTypeMismatch ==
    (Bound /\ breq.ep \in MoreEndpoints /\ FieldsFrom(TRUE) # {}) =>
        LET P == Params(breq.ep)
            expected == CASE breq.ep = "login" -> "form"
                          [] breq.ep = "form_files" -> "multipart"
                          [] OTHER -> "json"
            media == Err(<<"body">>, "UNSUPPORTED_MEDIA_TYPE")
        IN  IF breq.ctype # expected
            THEN /\ Count(bout.errors, media) = 1
                 /\ \A i \in BodyErrors : bout.errors[i] = media
                 /\ \A i \in FieldsFrom(TRUE) : P[i].name \notin DOMAIN bout.values
                 /\ \A i \in FieldsFrom(FALSE) :
                       LET alone == BindField(P[i], Extract(P[i], breq), TopLoc(P[i]))
                       IN  /\ bout.values[P[i].name] = alone.val
                           /\ SelectSeq(bout.errors, LAMBDA e : e.loc = TopLoc(P[i]))
                                 = alone.errs
                 /\ (breq.ep = "single_body"
                        /\ breq.path["item_id"].t = <<"1", "0", "0", "1">>) =>
                       bout.errors = <<Err(<<"path", "item_id">>, "RANGE_ERROR"), media>>
            ELSE Count(bout.errors, media) = 0

\* A JSON request to the form-encoded /login/ carrying both fields has been
\* rejected with the one request-level error.
C16_Witness ==
    /\ bphase = "responded"
    /\ breq.ep = "login"
    /\ breq.ctype = "json"
    /\ breq.body.k = "object"
    /\ breq.body.fields["username"].k = "text"
    /\ breq.body.fields["password"].k = "text"
    /\ bout.errors = <<Err(<<"body">>, "UNSUPPORTED_MEDIA_TYPE")>>
    /\ ~bcall.ran

\* The response answers a request for path operation ep that named a stored
\* item of 12-response_model.
AnsweredItem(ep) ==
    /\ bphase = "responded"
    /\ breq.ep = ep
    /\ breq.path["item_id"].t \in DOMAIN Items12

\* The stored item the request names.
Named == Items12[breq.path["item_id"].t]

\* C17: GET /items/{item_id} of 12-response_model, shaped with
\* exclude-unset, answers with exactly the fields the stored item provides
\* and omits every field left at its default, even when a provided value
\* equals the default: for foo exactly name and price, for baz also the tax
\* 10.5 it provides, which is the declared default.
C17_ExcludeUnset ==
    AnsweredItem("rm_read_item") =>
        /\ bresp.status = 200
        /\ DOMAIN bresp.content = DOMAIN Named
        /\ \A n \in DOMAIN Named \ {"price"} : bresp.content[n] = Named[n]
        /\ bresp.content["price"].k = "float"
        /\ breq.path["item_id"].t = <<"f", "o", "o">> =>
              /\ DOMAIN bresp.content = {"name", "price"}
              /\ bresp.content["name"] = StrVal(<<"Foo">>)
              /\ bresp.content["price"] = FloatVal(502)
        /\ breq.path["item_id"].t = <<"b", "a", "z">> =>
              /\ "tax" \in DOMAIN bresp.content
              /\ bresp.content["tax"] = FloatVal(105)
              /\ "tags" \notin DOMAIN bresp.content

\* GET /items/foo has been answered with name and price only.
C17_Witness ==
    /\ AnsweredItem("rm_read_item")
    /\ breq.path["item_id"].t = <<"f", "o", "o">>
    /\ bcall.ran
    /\ DOMAIN bresp.content = {"name", "price"}

\* The value of field n the shaper reads from stored item `item`: the value
\* the item provides, a float for an int price, or the declared default.
SourceValue(item, n) ==
    IF n \notin DOMAIN item THEN ByName(Item12Fields, n).default
    ELSE IF item[n].k = "int" THEN FloatVal(10 * item[n].v)
    ELSE item[n]

\* C18: for every stored item of 12-response_model, GET
\* /items/{item_id}/name (include-only {name, description}) answers with
\* exactly the fields name and description holding the source's values, and
\* GET /items/{item_id}/public (exclude {tax}) with every field of Item
\* except tax; no path operation declares include-only and exclude together.
C18_IncludeAndExclude ==
    /\ \A ep \in MoreEndpoints \cup Endpoints :
          ~("include" \in DOMAIN Policy(ep) /\ "exclude" \in DOMAIN Policy(ep))
    /\ AnsweredItem("rm_read_item_name") =>
          /\ bresp.status = 200
          /\ DOMAIN bresp.content = {"name", "description"}
          /\ \A n \in {"name", "description"} : bresp.content[n] = SourceValue(Named, n)
          /\ breq.path["item_id"].t = <<"f", "o", "o">> =>
                /\ bresp.content["name"] = StrVal(<<"Foo">>)
                /\ bresp.content["description"] = AbsentVal
    /\ AnsweredItem("rm_read_item_public_data") =>
          /\ bresp.status = 200
          /\ DOMAIN bresp.content = {"name", "description", "price", "tags"}
          /\ \A n \in DOMAIN bresp.content : bresp.content[n] = SourceValue(Named, n)

\* GET /items/bar/name has been answered with the name and the description
\* of bar.
C18_Witness ==
    /\ AnsweredItem("rm_read_item_name")
    /\ breq.path["item_id"].t = <<"b", "a", "r">>
    /\ bcall.ran
    /\ bresp.content["description"] = StrVal(<<"The Bar fighters">>)

\* The response answers a user submitted to POST /user_out/ or POST /user/
\* that was bound without error.
AnsweredUser ==
    /\ bphase = "responded"
    /\ breq.ep \in {"user_out", "user"}
    /\ bcall.ran

\* The user the request submitted, as bound.
Submitted ==
    IF breq.ep = "user_out" THEN bcall.args["user"].fields
    ELSE bcall.args["user_in"].fields

\* C19: the response to a user submitted to POST /user_out/ or POST /user/
\* holds exactly the fields of UserOut, username, email and full_name, with
\* the submitted values, and no password or hashed_password, although the
\* value the function returns holds the password (/user_out/) or the hashed
\* password (/user/).
C19_OnlyDeclaredFields ==
    AnsweredUser =>
        LET returned == Handler(breq.ep, bcall.args).content
        IN  /\ bresp.status = 200
            /\ DOMAIN bresp.content = {"username", "email", "full_name"}
            /\ \A n \in DOMAIN bresp.content : bresp.content[n] = Submitted[n]
            /\ breq.ep = "user_out" =>
                  /\ "password" \in DOMAIN returned
                  /\ returned["password"] = Submitted["password"]
            /\ breq.ep = "user" =>
                  /\ "hashed_password" \in DOMAIN returned
                  /\ "password" \notin DOMAIN returned
                  /\ returned["hashed_password"] =
                        StrVal(<<"s", "u", "p", "e", "r", "s", "e", "c", "r", "e", "t">>
                                  \o Submitted["password"].v)

\* A user with password 3 has been submitted to POST /user_out/ and answered
\* without it.
C19_Witness ==
    /\ AnsweredUser
    /\ breq.ep = "user_out"
    /\ Submitted["password"] = StrVal(<<"3">>)
    /\ bresp.status = 200
    /\ "password" \notin DOMAIN bresp.content
    /\ "username" \in DOMAIN bresp.content

(***************************************************************************)
(* Properties of the route lookup (SpecRoute).                             *)
(***************************************************************************)
\* C20: path operations are tried in the order they were declared and the
\* first whose path matches handles the request: in 2-path_parameters and
\* in the app package GET /users/me goes to read_user_me, never to the
\* parameterized /users/{user_id} or /users/{username} declared after it,
\* and GET /users/<x> for every other segment x goes to that parameterized
\* path operation.
C20_FirstMatchWins ==
    (rphase = "matched" /\ rreq.method = "GET" /\ Len(rreq.segs) = 2
        /\ rreq.segs[1] = "users" /\ rreq.segs[2] # "") =>
        /\ rsel.status = 200
        /\ rsel.endpoint = IF rreq.segs[2] = "me" THEN "read_user_me" ELSE "read_user"

\* GET /users/me has been looked up in 2-path_parameters and went to
\* read_user_me.
C20_Witness ==
    /\ rphase = "matched"
    /\ rreq.app = "2-path_parameters"
    /\ rreq.method = "GET"
    /\ rreq.segs = <<"users", "me">>
    /\ rsel.endpoint = "read_user_me"

(***************************************************************************)
(* Properties of the updates of 16-body_updates (SpecStore).               *)
(***************************************************************************)
\* Request r is a PATCH whose function runs in this step on a stored item.
Patches(r) ==
    Calls(r) /\ sreq[r].method = "PATCH" /\ sreq[r].item_id \in DOMAIN items

\* C25: PATCH /items/patch/{item_id} changes only the fields present in the
\* request body.  Read through the Item model, every field the body did not
\* set has the value it had before the update (a stored value is never
\* replaced by a default of the model), every field the body set has the
\* body's value, and every other stored item is as it was.
C25_PatchChangesOnlySetFields ==
    [][\A r \in Reqs : Patches(r) =>
            LET id == sreq[r].item_id
            IN  /\ DOMAIN items' = DOMAIN items
                /\ \A n \in SeqNames(Item16Fields) :
                      ItemModel(items'[id])[n] =
                          IF n \in sbound[r].fields_set THEN sbound[r].item.fields[n]
                          ELSE ItemModel(items[id])[n]
                /\ \A other \in DOMAIN items \ {id} : items'[other] = items[other]
      ]_vars

\* A PATCH of foo that set only the name has run: the name is the body's
\* and the price is still the one stored at startup.
C25_Witness ==
    \E r \in Reqs :
        /\ sphase[r] = "responded"
        /\ sreq[r].method = "PATCH"
        /\ sreq[r].item_id = "foo"
        /\ sbound[r].fields_set = {"name"}
        /\ sresp[r].status = 200
        /\ items["foo"]["name"] = StrVal(<<"a">>)
        /\ items["foo"]["price"] = FloatVal(502)

\* Request r's function runs in this step on an item id that is not stored.
CallsUnknown(r) == Calls(r) /\ sreq[r].item_id \notin DOMAIN items

\* Request r is answered in this step without its function running.
Rejected(r) == sphase[r] = "received" /\ sphase'[r] = "responded"

\* C30: a GET /items/{item_id} or a PATCH /items/patch/{item_id} whose
\* function runs on an item id that is not a key of items fails with a
\* server error (500) and leaves the dictionary as it was; PUT
\* /items/put/{item_id} on such an id creates the entry with the item of the
\* body and answers 200; a request that fails validation is answered 422
\* and never changes the dictionary.
C30_UnknownItemAndInvalidBody ==
    [][\A r \in Reqs :
          /\ (CallsUnknown(r) /\ sreq[r].method \in {"GET", "PATCH"}) =>
                /\ sresp'[r].status = 500
                /\ items' = items
          /\ (CallsUnknown(r) /\ sreq[r].method = "PUT") =>
                /\ sresp'[r].status = 200
                /\ DOMAIN items' = DOMAIN items \cup {sreq[r].item_id}
                /\ items'[sreq[r].item_id] = sbound[r].item.fields
                /\ \A id \in DOMAIN items : items'[id] = items[id]
          /\ Rejected(r) =>
                /\ sresp'[r].status = 422
                /\ items' = items
      ]_vars

\* A PATCH of an item that is not stored has been answered 500 and the item
\* is still not stored, while another request's body has failed validation.
C30_Witness ==
    \E r1, r2 \in Reqs :
        /\ sphase[r1] = "responded"
        /\ sreq[r1].method = "PATCH"
        /\ sreq[r1].item_id = "new"
        /\ sresp[r1].status = 500
        /\ "new" \notin DOMAIN items
        /\ sphase[r2] = "responded"
        /\ sresp[r2].status = 422

\* Request r's function writes items (or fails) in this step.
Writes(r) == sphase[r] \in {"bound", "suspended"} /\ sphase'[r] = "responded"

\* Request p is a PATCH that has been answered 200.
Patched(p) ==
    sphase[p] = "responded" /\ sreq[p].method = "PATCH" /\ sresp[p].status = 200

\* C29: the PUT and PATCH functions read and write items with no suspension
\* point in between, so no update is lost.  Every change of items is the
\* whole function of one request applied to the dictionary as it is in that
\* step, so the dictionary is always the result of applying the requests
\* one after another in the order their functions ran; and when a PATCH
\* runs while another PATCH of the same item, setting other fields, has
\* been answered and is still being handled, the fields of both are set
\* afterwards.
C29_NoLostUpdate ==
    [][/\ items' # items =>
            \E r \in Reqs :
                /\ Writes(r)
                /\ sreq[r].method \in {"PUT", "PATCH"}
                /\ items' = Applied(items, sreq[r], sbound[r]).items
       /\ \A p, r \in Reqs :
            (/\ p # r
             /\ Patched(p)
             /\ Writes(r)
             /\ sreq[r].method = "PATCH"
             /\ sreq[r].item_id = sreq[p].item_id
             /\ sbound[r].fields_set \cap sbound[p].fields_set = {}) =>
                /\ \A n \in sbound[p].fields_set :
                      items'[sreq[r].item_id][n] = items[sreq[r].item_id][n]
                /\ \A n \in sbound[r].fields_set :
                      items'[sreq[r].item_id][n] = sbound[r].item.fields[n]
      ]_vars

\* Two PATCHes of foo handled at the same time, one setting the name and one
\* the price, have both been answered: foo has the name of the one and the
\* price of the other.
C29_Witness ==
    \E p, r \in Reqs :
        /\ p # r
        /\ Patched(p) /\ Patched(r)
        /\ sreq[p].item_id = "foo" /\ sreq[r].item_id = "foo"
        /\ sbound[p].fields_set = {"name"}
        /\ sbound[r].fields_set = {"price"}
        /\ items["foo"]["name"] = sbound[p].item.fields["name"]
        /\ items["foo"]["price"] = sbound[r].item.fields["price"]
        /\ items["foo"]["price"] # ItemsAtStartup["foo"]["price"]

(***************************************************************************)
(* Properties of the lookups by item id (SpecLookup).                      *)
(***************************************************************************)
\* GET of path operation ep has been answered.
AnsweredLookup(ep) == bphase = "responded" /\ breq.ep = ep

\* The item id of the request.
LookedUp == breq.path["item_id"].t

\* C26, as claimed: GET /items-header/{item_id} of 15-handling_errors is
\* answered, for an item id that is not a key of items, with status 404,
\* the detail 'Item not found' and the response header X-Error: 'There goes
\* my error'; for a key of items, with the item and status 200.
C26_NotFoundWithHeader ==
    AnsweredLookup("items_header") =>
        IF LookedUp \in DOMAIN Items15
        THEN /\ bresp.status = 200
             /\ bresp.content = [n \in {"item"} |-> Items15[LookedUp]]
        ELSE /\ bresp.status = 404
             /\ bresp.content.detail = "Item not found"
             /\ "headers" \in DOMAIN bresp
             /\ "X-Error" \in DOMAIN bresp.headers
             /\ bresp.headers["X-Error"] = "There goes my error"

\* C28, as claimed: GET /items/{item_id} of 13-extra_models returns, for
\* item1 and for item2, the item stored under that key in the mapping declared
\* above it (item1 a car, item2 a plane of size 5), with status 200.
C28_UnionItemReturned ==
    (AnsweredLookup("items_union") /\ LookedUp \in DOMAIN ItemsDeclared13.v) =>
        /\ bresp.status = 200
        /\ bresp.content = ItemsDeclared13.v[LookedUp]

(***************************************************************************)
(* Properties of the served requests (SpecServe).                          *)
(***************************************************************************)
\* The slot of the served request.
Slot == CHOOSE r \in Serving : TRUE

\* A request to the application has been answered; Reply is the response.
Replied(app) == rphase = "serving" /\ rreq.app = app /\ dstatus[Slot] = "done"

Reply == dresp[Slot]

\* The path operation function of the served request has run.
HandlerRan ==
    /\ dreq[Slot].op # "none"
    /\ \E i \in 1..Len(calls[Slot]) : calls[Slot][i].node = Function(dreq[Slot].op)

\* C21, as claimed: verify_token and verify_key run for every GET /items/ of
\* 17-dependencies.  A request whose X-Token is not fake-super-secret-token
\* or whose X-Key is not fake-super-secret-key is rejected, with 400 when it
\* carries both headers, and is never answered 200 by a function of /items/.
C21_ItemsGuarded ==
    (/\ Replied("17-dependencies")
     /\ rreq.method = "GET"
     /\ rreq.segs = <<"items", "">>
     /\ (rreq.in.x_token # "fake-super-secret-token"
            \/ rreq.in.x_key # "fake-super-secret-key")) =>
        /\ Reply.status # 200
        /\ ~HandlerRan
        /\ (rreq.in.x_token # "missing" /\ rreq.in.x_key # "missing") =>
                Reply.status = 400

\* The served request is for a path under /items.
UnderItems == rreq.segs[1] = "items"

\* C22: in the app package the dependency of the application,
\* get_query_token, is combined with the dependencies of each router.  No
\* path operation function (of /, /users/... or /items/...) runs unless the
\* query parameter token is jessica, and none of /items/... runs unless the
\* header X-Token is fake-super-secret-token as well; the functions of / and
\* /users/... run for token jessica whatever X-Token is, and those of
\* /items/... run when both are right.
C22_GlobalAndRouterDependencies ==
    Replied("app") =>
        /\ HandlerRan =>
              /\ rreq.in.token = "jessica"
              /\ UnderItems => rreq.in.x_token = "fake-super-secret-token"
        /\ (rsel.status = 200 /\ rreq.in.token = "jessica"
                /\ (UnderItems => rreq.in.x_token = "fake-super-secret-token")) =>
              HandlerRan

\* GET /items/plumbus with token jessica and a wrong X-Token has been
\* answered 400 by get_token_header, and read_item has not run.
C22_Witness ==
    /\ Replied("app")
    /\ rreq.method = "GET"
    /\ rreq.segs = <<"items", "plumbus">>
    /\ rreq.in.token = "jessica"
    /\ rreq.in.x_token = "wrong"
    /\ Reply.status = 400
    /\ Reply.content.detail = "X-Token header invalid"
    /\ ~HandlerRan

(***************************************************************************)
(* Properties of 18-security (SpecSecurity).                               *)
(***************************************************************************)
\* POST /token has been answered.
SignInReplied == Replied("18-security") /\ rsel.endpoint = "login"

\* The submitted username is a key of fake_users_db and the submitted
\* password hashes to what is stored for it.
CredentialsRight ==
    /\ rreq.in.form.username \in DOMAIN FakeUsersDb
    /\ FakeUsersDb[rreq.in.form.username].hashed_password
            = get_password_hash(rreq.in.form.password)

\* C24: POST /token returns an access token, with token_type bearer and a
\* payload whose sub is the submitted username, if and only if the username
\* is a key of fake_users_db and the password verifies against the hash
\* stored for that user.  Every other sign-in gets no token; when it
\* submitted a username and a password it is answered 401 'Incorrect
\* username or password', the same for an unknown user as for a wrong
\* password.
C24_TokenIffCredentials ==
    SignInReplied =>
        /\ Reply.status = 200 <=> CredentialsRight
        /\ "access_token" \in DOMAIN Reply.content <=> CredentialsRight
        /\ CredentialsRight =>
              /\ Reply.content.token_type = "bearer"
              /\ Reply.content.access_token.signed
              /\ Reply.content.access_token.sub = rreq.in.form.username
        /\ (~CredentialsRight /\ rreq.in.form.username # "missing"
                /\ rreq.in.form.password # "missing") =>
              /\ Reply.status = 401
              /\ Reply.content.detail = "Incorrect username or password"

\* johndoe has signed in with the password secret and got a bearer token
\* for johndoe.
C24_Witness ==
    /\ SignInReplied
    /\ rreq.in.form = [username |-> "johndoe", password |-> "secret"]
    /\ Reply.status = 200
    /\ Reply.content.token_type = "bearer"
    /\ Reply.content.access_token.sub = "johndoe"

\* A request for one of the two protected paths has been answered.
ProtectedReplied ==
    Replied("18-security") /\ rsel.endpoint \in {"users_me", "users_me_items"}

\* The served request presents a token that POST /token issued.
PresentsIssued == rreq.in.token.k = "jwt" /\ "exp" \in DOMAIN rreq.in.token

Verifies ==
    /\ rreq.in.token.k = "jwt"
    /\ rreq.in.token.signed
    /\ "exp" \in DOMAIN rreq.in.token => rreq.in.now <= rreq.in.token.exp

\* The token's sub names a user of fake_users_db.
NamesUser == rreq.in.token.sub \in DOMAIN FakeUsersDb

\* Users as get_current_user may hand them on, enabled or disabled.
SomeUsers ==
    {[FakeUsersDb["johndoe"] EXCEPT !.disabled = d] : d \in BOOLEAN}

\* C23: the functions of GET /users/me/ and GET /users/me/items/ run only
\* for a request whose bearer token verifies with the server's key, carries
\* a sub naming a user of fake_users_db, and whose user is not disabled.  A
\* token that does not decode, has no sub or names an unknown user is
\* answered 401 'Could not validate credentials'; get_current_active_user
\* raises 400 'Inactive user' for a disabled user and returns every other.
C23_ProtectedPaths ==
    /\ ProtectedReplied =>
          /\ HandlerRan =>
                /\ Verifies
                /\ NamesUser
                /\ ~FakeUsersDb[rreq.in.token.sub].disabled
                /\ Reply.status = 200
          /\ (rreq.in.token.k = "jwt" /\ ~(Verifies /\ NamesUser)) =>
                /\ Reply.status = 401
                /\ Reply.content.detail = "Could not validate credentials"
                /\ ~HandlerRan
          /\ (Verifies /\ NamesUser /\ FakeUsersDb[rreq.in.token.sub].disabled) =>
                /\ Reply.status = 400
                /\ Reply.content.detail = "Inactive user"
    /\ \A u \in SomeUsers :
          NodeCall("get_current_active_user", NoOp.in, <<[k |-> "user", v |-> u]>>, 1)
            = IF u.disabled THEN Fail(400, "Inactive user")
              ELSE Ok([k |-> "user", v |-> u])

\* GET /users/me/items/ with a token for johndoe that is not signed with the
\* server's key has been answered 401, and read_own_items has not run.
C23_Witness ==
    /\ ProtectedReplied
    /\ rreq.segs = <<"users", "me", "items", "">>
    /\ rreq.in.token = [k |-> "jwt", signed |-> FALSE, sub |-> "johndoe"]
    /\ Reply.status = 401
    /\ ~HandlerRan

====
